---- MODULE Spec2Model ----
(***************************************************************************)
(* eth-compress: the eth_call payload rewriter compress_call, the JIT      *)
(* bytecode synthesiser _jitDecompressor behind it, and the EVM that runs  *)
(* the synthesised contract against an echo target.                        *)
(*                                                                         *)
(* Strings are sequences of ASCII codes, byte arrays are sequences of      *)
(* 0..255, and a JavaScript bigint is its big-endian base-256 digit        *)
(* sequence without leading zeros (0n is the empty sequence), so 256-bit   *)
(* values never pass through a machine integer.                            *)
(***************************************************************************)
EXTENDS Integers, Sequences, FiniteSets, TLC

\* What outlives a call of compress_call; the state of a call itself is
\* declared with the call, further down.
VARIABLES
  libzip,         \* LibZip's two pure functions, as far as they have been asked
  seen            \* the invocations of compress_call that have returned

(***************************************************************************)
(* Characters and strings                                                  *)
(***************************************************************************)
Ch0 == 48
ChX == 120

Min(a, b) == IF a <= b THEN a ELSE b

\* String.prototype.toLowerCase on one ASCII code
lowerChar(c) == IF c >= 65 /\ c <= 90 THEN c + 32 ELSE c

toLowerCase(s) == [i \in 1..Len(s) |-> lowerChar(s[i])]

\* '0x' as a string
Str0x == <<Ch0, ChX>>

\* hex.replace(/^0x/, '').toLowerCase()
normHex(hex) ==
  LET stripped == IF Len(hex) >= 2 /\ hex[1] = Ch0 /\ hex[2] = ChX
                  THEN SubSeq(hex, 3, Len(hex)) ELSE hex
  IN toLowerCase(stripped)

\* value of one hex digit, -1 when the character is not a hex digit
hexVal(c) ==
  IF c >= 48 /\ c <= 57 THEN c - 48
  ELSE IF c >= 97 /\ c <= 102 THEN c - 87
  ELSE IF c >= 65 /\ c <= 70 THEN c - 55
  ELSE -1

\* the byte stored by bytes[i / 2] = Number.parseInt(s, 16) for a slice s of
\* one or two characters: parseInt reads the longest hex prefix, NaN stores 0
parseInt16(s) ==
  IF Len(s) = 0 \/ hexVal(s[1]) < 0 THEN 0
  ELSE IF Len(s) = 1 \/ hexVal(s[2]) < 0 THEN hexVal(s[1])
  ELSE 16 * hexVal(s[1]) + hexVal(s[2])

\* new Uint8Array(len / 2) truncates a fractional length; a write past the
\* end of a typed array is dropped
hexToUint8Array(hex) ==
  LET normalized == normHex(hex)
      len == Len(normalized)
  IN [k \in 1..(len \div 2) |->
        parseInt16(SubSeq(normalized, 2 * k - 1, Min(2 * k, len)))]

hexDigit(n) == IF n < 10 THEN 48 + n ELSE 87 + n

\* bytes[i].toString(16).padStart(2, '0') for every byte
uint8ArrayToHex(bytes) ==
  [i \in 1..(2 * Len(bytes)) |->
     IF i % 2 = 1 THEN hexDigit(bytes[(i + 1) \div 2] \div 16)
     ELSE hexDigit(bytes[i \div 2] % 16)]

\* s.padStart(n, '0')
padStart0(s, n) ==
  IF Len(s) >= n THEN s
  ELSE [i \in 1..n |-> IF i <= n - Len(s) THEN Ch0 ELSE s[i - (n - Len(s))]]

(***************************************************************************)
(* bigint arithmetic on digit sequences                                    *)
(***************************************************************************)
\* drop leading zero digits
Strip(s) ==
  LET t == SubSeq(s, 1, Len(s))
  IN IF \A i \in 1..Len(t) : t[i] = 0 THEN <<>>
     ELSE LET f == CHOOSE i \in 1..Len(t) : t[i] # 0 /\ \A j \in 1..(i - 1) : t[j] = 0
          IN SubSeq(t, f, Len(t))

\* the 32 big-endian bytes of a value below 2^256
Pad32(v) == [i \in 1..32 |-> IF i <= 32 - Len(v) THEN 0 ELSE v[i - (32 - Len(v))]]

\* BigInt(n) for a JavaScript number n that is a small non-negative integer
RECURSIVE NatDigits(_)
NatDigits(n) == IF n = 0 THEN <<>> ELSE Append(NatDigits(n \div 256), n % 256)
BigOf(n) == NatDigits(n)

\* Number(v) for a bigint that fits a machine integer
RECURSIVE DigitsNat(_, _)
DigitsNat(v, acc) == IF v = <<>> THEN acc ELSE DigitsNat(Tail(v), acc * 256 + Head(v))
NumberOf(v) == DigitsNat(v, 0)

\* v fits a 31-bit machine integer
IsSmall(v) == Len(v) <= 3

\* a <= b on bigints
BigLeq(a, b) ==
  IF Len(a) # Len(b) THEN Len(a) < Len(b)
  ELSE \/ a = b
       \/ \E i \in 1..Len(a) : a[i] < b[i] /\ \A j \in 1..(i - 1) : a[j] = b[j]

RECURSIVE BitOp(_, _, _, _)
\* bitwise combination of two bytes; k counts the remaining bits
BitOp(f, x, y, k) ==
  IF k = 0 THEN 0
  ELSE LET bx == x % 2
           by == y % 2
           r == CASE f = "or" -> IF bx + by > 0 THEN 1 ELSE 0
                  [] f = "and" -> bx * by
                  [] f = "xor" -> (bx + by) % 2
       IN r + 2 * BitOp(f, x \div 2, y \div 2, k - 1)

Bitwise(f, a, b) ==
  LET pa == Pad32(a)
      pb == Pad32(b)
  IN Strip([i \in 1..32 |-> BitOp(f, pa[i], pb[i], 8)])

RECURSIVE Pow2(_)
Pow2(k) == IF k = 0 THEN 1 ELSE 2 * Pow2(k - 1)

MAX_128_BIT == [i \in 1..16 |-> 255]
MAX_256_BIT == [i \in 1..32 |-> 255]

not(a) == LET pa == Pad32(a) IN Strip([i \in 1..32 |-> 255 - pa[i]])
and(a, b) == Bitwise("and", a, b)
or(a, b) == Bitwise("or", a, b)
xor(a, b) == Bitwise("xor", a, b)

\* (value << shift) & MAX_256_BIT
shl(shift, value) ==
  IF Len(shift) > 1 \/ value = <<>> THEN <<>>
  ELSE LET sh == NumberOf(shift)
           q == sh \div 8
           r == sh % 8
           p == Pad32(value)
           at(i) == IF i >= 1 /\ i <= 32 THEN p[i] ELSE 0
       IN Strip([i \in 1..32 |->
                   ((at(i + q) * Pow2(r)) % 256) + (at(i + q + 1) \div Pow2(8 - r))])

\* (value >> shift) & MAX_256_BIT
shr(shift, value) ==
  IF Len(shift) > 1 \/ value = <<>> THEN <<>>
  ELSE LET sh == NumberOf(shift)
           q == sh \div 8
           r == sh % 8
           p == Pad32(value)
           at(i) == IF i >= 1 /\ i <= 32 THEN p[i] ELSE 0
       IN Strip([i \in 1..32 |->
                   (at(i - q) \div Pow2(r)) + ((at(i - q - 1) * Pow2(8 - r)) % 256)])

RECURSIVE SubDigits(_, _, _, _)
\* digits i..1 of pa - pb with an incoming borrow, least significant first
SubDigits(pa, pb, i, borrow) ==
  IF i = 0 THEN <<>>
  ELSE LET d == pa[i] - pb[i] - borrow
       IN Append(SubDigits(pa, pb, i - 1, IF d < 0 THEN 1 ELSE 0),
                 IF d < 0 THEN d + 256 ELSE d)

\* (a - b) & MAX_256_BIT
sub(a, b) == Strip(SubDigits(Pad32(a), Pad32(b), 32, 0))

\* sign-extend value from (byteSize + 1) bytes
sigext(byteSize, value) ==
  IF ~IsSmall(byteSize) \/ NumberOf(byteSize) >= 31 THEN value
  ELSE LET numBytes == NumberOf(byteSize) + 1
           p == Pad32(value)
           neg == p[32 - numBytes + 1] >= 128
       IN Strip([i \in 1..32 |->
                   IF i > 32 - numBytes THEN p[i] ELSE IF neg THEN 255 ELSE 0])

(***************************************************************************)
(* Opcode emitter and symbolic stack tracker of _jitDecompressor.  The     *)
(* emitter state is one record E whose fields carry the names of the       *)
(* closure variables: ops, data, stack, trackedMemSize, mem, stackFreq,    *)
(* stackCnt, pushCounter.  A null immediate is the empty sequence.         *)
(***************************************************************************)
padding == 28

\* let firstPass = true; it is never assigned again
firstPass == TRUE

EmptyMap == <<>>

\* the emitter state after the declarations of lines 453-473
NewEmitter ==
  [ops |-> <<>>, data |-> <<>>, stack |-> <<>>, trackedMemSize |-> 0,
   mem |-> EmptyMap, stackFreq |-> EmptyMap, stackCnt |-> EmptyMap,
   pushCounter |-> 0]

roundUp32(x) == ((x + 31) \div 32) * 32

\* m.get(k) || 0
getOr0(m, k) == IF k \in DOMAIN m THEN m[k] ELSE 0

\* m.set(k, x)
mapSet(m, k, x) == (k :> x) @@ m

\* stack.lastIndexOf(val) as a distance from the top, -1 beyond DUP16
\* fault: the depth is counted from the wrong end of the match, one too deep
getStackIdxOffByOne(stack, val) ==
  LET hits == {i \in 1..Len(stack) : stack[i] = val}
  IN IF hits = {} THEN -1
     ELSE LET last == CHOOSE i \in hits : \A j \in hits : j <= i
              idx == Len(stack) - last + 1
          IN IF idx > 15 THEN -1 ELSE idx

\* fault: stack.indexOf(val), the occurrence farthest from the top
getStackIdxDeepest(stack, val) ==
  LET hits == {i \in 1..Len(stack) : stack[i] = val}
  IN IF hits = {} THEN -1
     ELSE LET first == CHOOSE i \in hits : \A j \in hits : i <= j
              idx == Len(stack) - first
          IN IF idx > 15 THEN -1 ELSE idx

\* lines 459-463: depth of the topmost occurrence of val, -1 beyond DUP16
getStackIdx(stack, val) ==
  LET hits == {i \in 1..Len(stack) : stack[i] = val}
  IN IF hits = {} THEN -1
     ELSE LET last == CHOOSE i \in hits : \A j \in hits : j <= i
              idx == Len(stack) - last
          IN IF idx > 15 THEN -1 ELSE idx

pushOp(E, op) == [E EXCEPT !.ops = Append(@, op)]

pushD(E, d) == [E EXCEPT !.data = Append(@, d)]

pushS(E, v, freq) ==
  [E EXCEPT !.stack = Append(@, v),
            !.stackFreq = mapSet(@, v, getOr0(@, v) + freq),
            !.pushCounter = @ + 1,
            !.stackCnt = mapSet(@, v, E.pushCounter + 1)]

trackMem(E, offset, size) == [E EXCEPT !.trackedMemSize = roundUp32(offset + size)]

\* the stack without its n top slots
Popped(E, n) == [E EXCEPT !.stack = SubSeq(@, 1, Len(@) - n)]

\* the slot at distance d from the top (0 is the top)
Top(stack, d) == stack[Len(stack) - d]

isPush(op) == (op >= 96 /\ op <= 127) \/ op = 95

\* the PUSH branch of addOp, lines 536-574; TRUE in .ret when it returned early
addOpPush(E, op, imm) ==
  LET v == Strip(imm)
      idx == getStackIdx(E.stack, v)
  IN IF v = BigOf(224)
       THEN [e |-> pushD(pushOp(pushS(E, v, 0), 48), <<>>), ret |-> TRUE]
     ELSE IF v = BigOf(32)
       THEN [e |-> pushD(pushOp(pushS(E, v, 0), 54), <<>>), ret |-> TRUE]
     ELSE IF v = BigOf(E.trackedMemSize)
       THEN [e |-> pushD(pushOp(pushS(E, v, 0), 89), <<>>), ret |-> TRUE]
     ELSE IF idx # -1 /\ op # 95
       THEN [e |-> pushD(pushOp(pushS(E, v, IF firstPass THEN 1 ELSE -1), 128 + idx), <<>>),
             ret |-> TRUE]
     ELSE IF v = MAX_256_BIT
       THEN [e |-> pushD(pushD(pushOp(pushOp(pushS(E, v, 1), 95), 25), <<>>), <<>>),
             ret |-> TRUE]
     ELSE [e |-> pushS(E, v, 1), ret |-> FALSE]

\* addOp(op, imm), lines 499-595
addOp(E, op, imm) ==
  LET s == E.stack
      two(f(_, _), freq) == pushS(Popped(E, 2), f(Top(s, 0), Top(s, 1)), freq)
      r == IF op = 54 THEN [e |-> pushS(E, BigOf(32), 0), ret |-> FALSE]
           ELSE IF op = 89 THEN [e |-> pushS(E, BigOf(E.trackedMemSize), 0), ret |-> FALSE]
           ELSE IF op = 11 THEN [e |-> two(sigext, 1), ret |-> FALSE]
           ELSE IF op = 25 THEN [e |-> pushS(Popped(E, 1), not(Top(s, 0)), 0), ret |-> FALSE]
           ELSE IF op = 24 THEN [e |-> two(xor, 1), ret |-> FALSE]
           ELSE IF op = 22 THEN [e |-> two(and, 1), ret |-> FALSE]
           ELSE IF op = 3 THEN [e |-> two(sub, 1), ret |-> FALSE]
           ELSE IF op = 27 THEN [e |-> two(shl, 1), ret |-> FALSE]
           ELSE IF op = 28 THEN [e |-> two(shr, 1), ret |-> FALSE]
           ELSE IF op = 23 THEN [e |-> two(or, 1), ret |-> FALSE]
           ELSE IF isPush(op) THEN addOpPush(E, op, imm)
           ELSE IF op = 81
             THEN LET k == NumberOf(Top(s, 0))
                  IN [e |-> pushS(Popped(E, 1), IF k \in DOMAIN E.mem THEN E.mem[k] ELSE <<>>, 1),
                      ret |-> FALSE]
           ELSE IF op = 82
             THEN LET k == NumberOf(Top(s, 0))
                  IN [e |-> trackMem([Popped(E, 2) EXCEPT !.mem = mapSet(@, k, Top(s, 1))], k, 32),
                      ret |-> FALSE]
           ELSE IF op = 83
             THEN [e |-> trackMem(Popped(E, 2), NumberOf(Top(s, 0)), 1), ret |-> FALSE]
           ELSE IF op = 243 THEN [e |-> Popped(E, 2), ret |-> FALSE]
           ELSE [e |-> E, ret |-> FALSE]
  IN IF r.ret THEN r.e ELSE pushD(pushOp(r.e, op), imm)

\* op(opcode)
op(E, opcode) == addOp(E, opcode, <<>>)

\* pushN(value); isNum tells a JavaScript number from a bigint, which
\* value === trackedMemSize distinguishes
pushN(E, value, isNum) ==
  IF isNum /\ value # <<>> /\ value = BigOf(E.trackedMemSize) THEN addOp(E, 89, <<>>)
  ELSE IF value = BigOf(32) THEN addOp(E, 54, <<>>)
  ELSE IF value = <<>> THEN addOp(E, 95, <<>>)
  ELSE addOp(E, 95 + Len(value), value)

\* pushB(buf)
pushB(E, buf) == addOp(E, 95 + Len(buf), buf)

(***************************************************************************)
(* Word planner: the body of the first-pass loop, lines 638-818.  It reads *)
(* no emitter state, so the steps of one word are decided first and then   *)
(* handed to emitPushN / emitPushB / emitOp one at a time.                 *)
(***************************************************************************)
\* PlanStep
StepNum(v, isNum) == [t |-> "num", v |-> v, isNum |-> isNum]
StepBytes(b) == [t |-> "bytes", b |-> b]
StepOp(o) == [t |-> "op", o |-> o]

\* const _stack = [1n, 32n, 224n]
ConstStack == {BigOf(1), BigOf(32), BigOf(224)}

\* word.set(buf.slice(base, Math.min(base + 32, n)), 0) on a zeroed word
wordAt(buf, base) ==
  [i \in 1..32 |-> IF base + i <= Len(buf) THEN buf[base + i] ELSE 0]

RECURSIVE segScan(_, _, _)
\* the segment loop of lines 642-649; positions are 0-based as in the source
segScan(word, i, seg) ==
  LET nz == {j \in i..31 : word[j + 1] # 0}
  IN IF nz = {} THEN seg
     ELSE LET st == CHOOSE j \in nz : \A k \in nz : j <= k
              zs == {j \in st..31 : word[j + 1] = 0}
              nx == IF zs = {} THEN 32 ELSE CHOOSE j \in zs : \A k \in zs : j <= k
          IN segScan(word, nx, Append(seg, [s |-> st, e |-> nx - 1]))

segments(word) == segScan(word, 0, <<>>)

RECURSIVE estShlCostFrom(_, _)
estShlCostFrom(seg, i) ==
  IF i > Len(seg) THEN 0
  ELSE (1 + seg[i].e - seg[i].s + 1)
       + (IF 31 - seg[i].e > 0 THEN 3 ELSE 0)
       + (IF i > 1 THEN 1 ELSE 0)
       + estShlCostFrom(seg, i + 1)

\* estShlCost(seg), lines 614-624
estShlCost(seg) == estShlCostFrom(seg, 1)

\* Math.ceil(Math.log2(base + 1) / 8)
baseBytesOf(base) ==
  IF base + 1 <= 1 THEN 0
  ELSE IF base + 1 <= 256 THEN 1
  ELSE IF base + 1 <= 65536 THEN 2
  ELSE IF base + 1 <= 16777216 THEN 3
  ELSE 4

RECURSIVE cntFrom(_, _, _)
\* matches of the global regular expression from position i on, left to
\* right and without overlap
cntFrom(hits, i, w) ==
  LET later == {h \in hits : h >= i}
  IN IF later = {} THEN 0
     ELSE LET h == CHOOSE x \in later : \A y \in later : x <= y
          IN 1 + cntFrom(hits, h + w, w)

\* (hex.match(new RegExp(wordHex, 'g')) || []).length
cntWords(hex, wordHex) ==
  LET w == Len(wordHex)
      hits == {i \in 1..(Len(hex) - w + 1) : SubSeq(hex, i, i + w - 1) = wordHex}
  IN cntFrom(hits, 1, w)

\* the steps of emitPushN(notVal); emitOp(0x19)
notSteps(notVal) == <<StepNum(notVal, FALSE), StepOp(25)>>

\* fault: the cost of SUB counts the bytes of subVal only
trySubImmediateOnly(best, literalVal) ==
  LET subVal == sub(<<>>, literalVal)
      subBytes == IF subVal \in ConstStack THEN 1
                  ELSE IF Len(subVal) = 0 THEN 1 ELSE Len(subVal)
      subCost == subBytes
  IN IF subCost < best.cost
     THEN [cost |-> subCost, kind |-> "SUB",
           steps |-> <<StepNum(<<>>, TRUE), StepNum(subVal, FALSE), StepOp(3)>>]
     ELSE best

\* Try SUB, lines 722-740
trySub(best, literalVal) ==
  LET subVal == sub(<<>>, literalVal)
      subBytes == IF subVal \in ConstStack THEN 1
                  ELSE IF Len(subVal) = 0 THEN 1 ELSE Len(subVal)
      subCost == 1 + (1 + subBytes) + 1
  IN IF subCost < best.cost
     THEN [cost |-> subCost, kind |-> "SUB",
           steps |-> <<StepNum(<<>>, TRUE), StepNum(subVal, FALSE), StepOp(3)>>]
     ELSE best

\* Try SIGNEXTEND, lines 742-761: the first width that reproduces the value
trySignExtend(best, literal, literalVal) ==
  LET L == Len(literal)
      trunc(nb) == Strip(SubSeq(literal, L - nb + 1, L))
      fits(nb) == /\ sigext(BigOf(nb - 1), trunc(nb)) = literalVal
                  /\ literal[L - nb + 1] >= 128
      cand == {nb \in 1..(L - 1) : fits(nb)}
  IN IF cand = {} THEN best
     ELSE LET numBytes == CHOOSE nb \in cand : \A m \in cand : nb <= m
              trueByteCost == IF literalVal \in ConstStack THEN 1 ELSE 1 + numBytes
              signCost == trueByteCost + (1 + 1) + 1
          IN IF signCost < best.cost
             THEN [cost |-> signCost, kind |-> "SIGNEXTEND",
                   steps |-> <<StepNum(trunc(numBytes), FALSE),
                               StepNum(BigOf(numBytes - 1), TRUE), StepOp(11)>>]
             ELSE best

\* Try SHIFT+NOT, lines 763-790: the loop over shiftBits = 8, 16, ..., 248 stops
\* at the first zero shift; a candidate replaces the best only when cheaper
tryShiftNot(best, literalVal) ==
  LET shifted(k) == shr(BigOf(8 * k), literalVal)
      notShifted(k) == not(shifted(k))
      reconstructed(k) == shl(BigOf(8 * k), notShifted(k))
      shiftedBytes(k) == IF Len(notShifted(k)) = 0 THEN 1 ELSE Len(notShifted(k))
      shiftNotCost(k) == 1 + shiftedBytes(k) + 2 + 1 + 1
      zero == {k \in 1..31 : shifted(k) = <<>>}
      visited == {k \in 1..31 : \A j \in zero : k < j}
      cand == {k \in visited : reconstructed(k) = literalVal /\ shiftNotCost(k) < best.cost}
  IN IF cand = {} THEN best
     ELSE LET k == CHOOSE x \in cand :
                     \A y \in cand : \/ shiftNotCost(x) < shiftNotCost(y)
                                     \/ (shiftNotCost(x) = shiftNotCost(y) /\ x <= y)
          IN [cost |-> shiftNotCost(k), kind |-> "SHIFTNOT",
              steps |-> <<StepNum(notShifted(k), FALSE), StepNum(BigOf(8 * k), TRUE),
                          StepOp(27), StepOp(25)>>]

\* "Aggregate all costs", lines 692-790: bestCost and bestEmit
bestOf(literal, literalVal) ==
  LET literalCost == 1 + Len(literal)
      notVal == not(literalVal)
      b0 == IF literalVal = MAX_256_BIT
            THEN [cost |-> 2, kind |-> "NOT", steps |-> notSteps(notVal)]
            ELSE [cost |-> literalCost, kind |-> "LITERAL", steps |-> <<StepBytes(literal)>>]
      notBytes == 1 + Len(notVal)
      notCost == notBytes + 1
      b1 == IF notCost < b0.cost
            THEN [cost |-> notCost, kind |-> "NOT", steps |-> notSteps(notVal)]
            ELSE b0
      b2 == trySub(b1, literalVal)
      b3 == trySignExtend(b2, literal, literalVal)
  IN tryShiftNot(b3, literalVal)

RECURSIVE byte8StepsNoValue(_, _, _, _)
\* fault: the byte is not pushed before its offset
byte8StepsNoValue(word, seg, base, i) ==
  IF i > Len(seg) THEN <<>>
  ELSE <<StepNum(BigOf(base + seg[i].s), TRUE), StepOp(83)>>
       \o byte8StepsNoValue(word, seg, base, i + 1)

RECURSIVE byte8Steps(_, _, _, _)
\* the MSTORE8 loop of lines 793-797
byte8Steps(word, seg, base, i) ==
  IF i > Len(seg) THEN <<>>
  ELSE <<StepNum(BigOf(word[seg[i].s + 1]), TRUE),
         StepNum(BigOf(base + seg[i].s), TRUE), StepOp(83)>>
       \o byte8Steps(word, seg, base, i + 1)

RECURSIVE shlSteps(_, _, _)
\* the SHL/OR loop of lines 801-811
shlSteps(word, seg, i) ==
  IF i > Len(seg) THEN <<>>
  ELSE LET suffix0s == 31 - seg[i].e
       IN <<StepBytes(SubSeq(word, seg[i].s + 1, seg[i].e + 1))>>
          \o (IF suffix0s > 0 THEN <<StepNum(BigOf(suffix0s * 8), TRUE), StepOp(27)>> ELSE <<>>)
          \o (IF i > 1 THEN <<StepOp(23)>> ELSE <<>>)
          \o shlSteps(word, seg, i + 1)

\* fault: the load reads the word that follows the cached one
reuseStepsNextWord(offset) == <<StepNum(BigOf(offset + 32), TRUE), StepOp(81)>>

\* push the cached offset; MLOAD, lines 672-673
reuseSteps(offset) == <<StepNum(BigOf(offset), TRUE), StepOp(81)>>

\* push base; MSTORE, lines 816-817
storeSteps(base) == <<StepNum(BigOf(base), TRUE), StepOp(82)>>

\* one iteration of the first-pass loop for the word at base: the steps it
\* emits, the strategy they belong to, and the two cache maps afterwards
planWord(hex, buf, base, wordCache, wordCacheCost) ==
  LET word == wordAt(buf, base)
      seg == segments(word)
      keep(kind, steps) == [kind |-> kind, steps |-> steps,
                            wordCache |-> wordCache, wordCacheCost |-> wordCacheCost]
  IN IF Len(seg) = 0 THEN keep("ZERO", <<>>)
     ELSE
     LET literal == SubSeq(word, seg[1].s + 1, 32)
         literalCost == 1 + Len(literal)
         literalVal == Strip(literal)
         baseBytes == baseBytesOf(base)
         wordHex == uint8ArrayToHex(word)
         shlCost == estShlCost(seg)
         inStack == literalVal \in ConstStack
         cached == wordHex \in DOMAIN wordCache
         reuse == /\ literalCost > 8
                  /\ cached
                  /\ literalCost > wordCacheCost[wordHex] + baseBytes
         enter == /\ literalCost > 8
                  /\ ~cached
                  /\ ~(wordHex \in DOMAIN wordCacheCost /\ wordCacheCost[wordHex] = -1)
         reuseCost == baseBytes + 3
         freq == cntWords(hex, wordHex)
         wc == IF enter THEN mapSet(wordCache, wordHex, base) ELSE wordCache
         wcc == IF enter
                THEN mapSet(wordCacheCost, wordHex,
                            IF freq * 32 > freq * reuseCost THEN reuseCost ELSE -1)
                ELSE wordCacheCost
         byte8s == \A i \in 1..Len(seg) : seg[i].s = seg[i].e
         byte8sCost == Len(seg) * 3
         best == bestOf(literal, literalVal)
         build(kind, steps) == [kind |-> kind, steps |-> steps,
                                wordCache |-> wc, wordCacheCost |-> wcc]
     IN IF inStack
          THEN keep("INSTACK", <<StepBytes(literal)>> \o storeSteps(base))
        ELSE IF reuse
          THEN keep("REUSE", reuseSteps(wordCache[wordHex]) \o storeSteps(base))
        ELSE IF byte8s /\ byte8sCost < best.cost /\ byte8sCost <= shlCost
          THEN build("MSTORE8", byte8Steps(word, seg, base, 1))
        ELSE IF shlCost < best.cost
          THEN build("SHLOR", shlSteps(word, seg, 1) \o storeSteps(base))
        ELSE build(best.kind, best.steps \o storeSteps(base))

(***************************************************************************)
(* Second pass and output of _jitDecompressor, lines 820-875               *)
(***************************************************************************)
\* v > 1n
BigGt1(v) == v # <<>> /\ v # BigOf(1)

RECURSIVE sortByCntDesc(_, _)
\* .sort((a, b) => stackCnt.get(b[0]) - stackCnt.get(a[0])) on a set of keys;
\* the counters of two different keys are never equal
sortByCntDesc(vals, stackCnt) ==
  IF vals = {} THEN <<>>
  ELSE LET v == CHOOSE x \in vals : \A y \in vals : stackCnt[y] <= stackCnt[x]
       IN <<v>> \o sortByCntDesc(vals \ {v}, stackCnt)

\* the values pushed before the replay, lines 826-835
preSeedList(stackFreq, stackCnt) ==
  LET keep == {v \in DOMAIN stackFreq :
                 stackFreq[v] > 1 /\ BigGt1(v) /\ v # BigOf(32) /\ v # BigOf(224)}
      sorted == sortByCntDesc(keep, stackCnt)
      small == SelectSeq(sorted, LAMBDA v : BigLeq(v, MAX_128_BIT))
  IN SubSeq(small, 1, Min(15, Len(small)))

\* one plan step handed to pushN / pushB / op, lines 838-842
applyStep(E, step) ==
  IF step.t = "num" THEN pushN(E, step.v, step.isNum)
  ELSE IF step.t = "bytes" THEN pushB(E, step.b)
  ELSE op(E, step.o)

\* fault: argsOffset is pushed before argsSize
trailerStepSwapped(E, i, originalLen) ==
  IF i = 1 THEN op(E, 95)
  ELSE IF i = 2 THEN op(E, 95)
  ELSE IF i = 3 THEN pushN(E, BigOf(padding), TRUE)
  ELSE pushN(E, BigOf(originalLen), TRUE)

\* the four emissions of lines 861-864
trailerStep(E, i, originalLen) ==
  IF i = 1 THEN op(E, 95)
  ELSE IF i = 2 THEN op(E, 95)
  ELSE IF i = 3 THEN pushN(E, BigOf(originalLen), TRUE)
  ELSE pushN(E, BigOf(padding), TRUE)

RECURSIVE outBytes(_, _, _, _)
\* lines 866-870: every opcode of ops[lo..hi], each followed by its immediate
\* for PUSH1..PUSH32
outBytes(ops, data, lo, hi) ==
  IF lo > hi THEN <<>>
  ELSE IF lo = hi
    THEN <<ops[lo]>>
         \o (IF ops[lo] >= 96 /\ ops[lo] <= 127 /\ data[lo] # <<>> THEN data[lo] ELSE <<>>)
  ELSE LET mid == (lo + hi) \div 2
       IN outBytes(ops, data, lo, mid) \o outBytes(ops, data, mid + 1, hi)

\* 34 5f 35 5a f1 3d 5f 5f 3e 3d 5f f3
CallTrailer == <<52, 95, 53, 90, 241, 61, 95, 95, 62, 61, 95, 243>>

\* the string returned at line 875
jitOutput(ops, data) ==
  Str0x \o uint8ArrayToHex(outBytes(ops, data, 1, Len(ops))) \o uint8ArrayToHex(CallTrailer)

(***************************************************************************)
(* compress_call, lines 878-959                                            *)
(***************************************************************************)
MIN_SIZE_FOR_COMPRESSION == 1150
JitBelow == 3000
JitFrom == 8000

DECOMPRESSOR_ADDRESS == Str0x \o [i \in 1..38 |-> Ch0] \o <<101, Ch0>>

MULTICALL3_ADDRESS ==
  Str0x \o uint8ArrayToHex(<<202, 17, 189, 224, 89, 119, 179, 99, 17, 103, 2, 136, 98, 190, 42, 23, 57, 118, 202, 17>>)

FlzHead ==
  <<54, 95, 115>>
FlzTail ==
  <<129, 91, 131, 129, 16, 96, 47, 87, 95, 128, 132, 129, 52, 134, 90, 241,
     80, 61, 95, 128, 62, 61, 95, 243, 91, 128, 53, 144, 129, 95, 26, 128,
     96, 5, 28, 144, 129, 21, 96, 152, 87, 96, 1, 144, 96, 7, 131, 20,
     146, 133, 131, 26, 96, 7, 1, 129, 24, 132, 2, 24, 96, 2, 1, 148,
     131, 131, 1, 26, 144, 96, 31, 22, 96, 8, 27, 1, 1, 128, 134, 3,
     144, 96, 32, 129, 24, 96, 32, 130, 17, 2, 24, 144, 129, 95, 91, 128,
     131, 1, 81, 129, 138, 1, 82, 1, 133, 129, 16, 96, 146, 87, 80, 80,
     80, 96, 2, 1, 1, 146, 1, 145, 96, 24, 86, 91, 130, 144, 96, 117,
     86, 91, 96, 1, 146, 147, 80, 130, 145, 80, 1, 145, 1, 146, 95, 91,
     130, 129, 16, 96, 179, 87, 80, 1, 145, 96, 24, 86, 91, 133, 133, 16,
     96, 193, 87, 91, 96, 1, 1, 96, 166, 86, 91, 147, 96, 1, 129, 129,
     146, 53, 95, 26, 135, 133, 1, 83, 1, 148, 144, 80, 96, 186, 86>>
RleHead ==
  <<95, 95, 91, 54, 129, 16, 96, 45, 87, 95, 128, 131, 129, 52, 115>>
RleTail ==
  <<90, 241, 80, 61, 95, 128, 62, 61, 95, 243, 91, 96, 1, 128, 130, 1,
     146, 144, 145, 96, 3, 25, 129, 1, 144, 53, 24, 95, 26, 128, 21, 96,
     76, 87, 129, 83, 1, 144, 96, 2, 86, 91, 80, 95, 25, 129, 82, 130,
     130, 1, 146, 96, 127, 144, 96, 3, 25, 129, 1, 144, 53, 24, 95, 26,
     129, 129, 17, 21, 96, 114, 87, 91, 22, 1, 1, 144, 96, 2, 86, 91,
     131, 129, 1, 54, 132, 55, 96, 106, 86>>

flzFwdBytecode(address) ==
  Str0x \o uint8ArrayToHex(FlzHead) \o normHex(address) \o uint8ArrayToHex(FlzTail)

rleFwdBytecode(address) ==
  Str0x \o uint8ArrayToHex(RleHead) \o normHex(address) \o uint8ArrayToHex(RleTail)

\* an absent value (undefined)
Undefined == "undefined"

hasKey(o, k) == k \in DOMAIN o

\* a string or object is truthy unless it is missing or the empty string
truthyStr(o, k) == hasKey(o, k) /\ o[k] # <<>>

\* const { method, params } = payload, and the three positions of params
paramsOf(p) == IF hasKey(p, "params") THEN p.params ELSE <<>>
txObjOf(p) == IF Len(paramsOf(p)) >= 1 THEN paramsOf(p)[1] ELSE p
hasBlockParam(p) == Len(paramsOf(p)) >= 2
blockParamOf(p) == paramsOf(p)[2]
hasOverrides(p) == Len(paramsOf(p)) >= 3
overridesOf(p) == IF hasOverrides(p) THEN paramsOf(p)[3] ELSE EmptyMap

\* fault: the test for a missing method is dropped
methodGateStrict(p) == ~hasKey(p, "method") \/ p.method # "eth_call"

\* line 900
methodGate(p) == hasKey(p, "method") /\ p.method # "" /\ p.method # "eth_call"

\* fault: the block parameter is not looked at
blockGateIgnored(p) == FALSE

\* line 907: blockParam && blockParam !== 'latest'
blockGate(p) == hasBlockParam(p) /\ blockParamOf(p) # "" /\ blockParamOf(p) # "latest"

\* fault: every instead of some
overrideGateEvery(p) ==
  /\ hasOverrides(p)
  /\ \A k \in DOMAIN overridesOf(p) : toLowerCase(k) # toLowerCase(MULTICALL3_ADDRESS)

\* lines 908-909: some key of the overrides is not the Multicall3 address
overrideGate(p) ==
  /\ hasOverrides(p)
  /\ \E k \in DOMAIN overridesOf(p) : toLowerCase(k) # toLowerCase(MULTICALL3_ADDRESS)

\* fault: gas is let through
callObjectGateWithGas(p) ==
  LET txObj == txObjOf(p)
  IN \/ ~truthyStr(txObj, "to")
     \/ ~truthyStr(txObj, "data")
     \/ \E k \in DOMAIN txObj : k \notin {"to", "data", "from", "gas"}

\* lines 910-912: no to, no data, or a key outside to, data, from
callObjectGate(p) ==
  LET txObj == txObjOf(p)
  IN \/ ~truthyStr(txObj, "to")
     \/ ~truthyStr(txObj, "data")
     \/ \E k \in DOMAIN txObj : k \notin {"to", "data", "from"}

\* the validation of lines 906-913
invalidCall(p) == blockGate(p) \/ overrideGate(p) \/ callObjectGate(p)

originalSizeOf(p) == Len(txObjOf(p).data)

\* fault: the threshold of the earlier release, line 317
LEGACY_MIN_SIZE == 800
tooSmallLegacy(originalSize) == originalSize < LEGACY_MIN_SIZE

\* line 918
tooSmall(originalSize) == originalSize < MIN_SIZE_FOR_COMPRESSION

\* lines 938-939
useFlz(alg, flzData, cdData) ==
  \/ alg = "flz"
  \/ (alg = Undefined /\ flzData # <<>> /\ (cdData = <<>> \/ Len(flzData) < Len(cdData)))

\* fault: a rewrite as long as the original is kept
beneficialInclusive(bytecode, calldata, originalSize) ==
  ~(Len(bytecode) + Len(calldata) > originalSize)

\* line 949, negated: the rewrite is kept
beneficial(bytecode, calldata, originalSize) ==
  ~(Len(bytecode) + Len(calldata) >= originalSize)

\* fault: the lower threshold is inclusive
useJitInclusive(alg, originalSize) ==
  alg = "jit" \/ (alg = Undefined /\ (originalSize <= JitBelow \/ originalSize >= JitFrom))

\* fault: the hint counts only inside the size bands of the automatic choice
useJitBanded(alg, originalSize) ==
  (alg = "jit" \/ alg = Undefined) /\ (originalSize < JitBelow \/ originalSize >= JitFrom)

\* line 927
useJit(alg, originalSize) ==
  alg = "jit" \/ (alg = Undefined /\ (originalSize < JitBelow \/ originalSize >= JitFrom))

\* fault: padEnd instead of padStart
jitCalldataPadEnd(to) ==
  LET h == normHex(to)
  IN Str0x \o h \o [i \in 1..(64 - Len(h)) |-> Ch0]

\* line 929
jitCalldata(to) == Str0x \o padStart0(normHex(to), 64)

\* fault: the overrides are replaced instead of merged
rewrittenNoMerge(p, bytecode, calldata) ==
  LET txObj == txObjOf(p)
      newTx == ("to" :> DECOMPRESSOR_ADDRESS) @@ ("data" :> calldata) @@ txObj
      block == IF hasBlockParam(p) /\ blockParamOf(p) # "" THEN blockParamOf(p) ELSE "latest"
      newOv == DECOMPRESSOR_ADDRESS :> [code |-> bytecode]
  IN ("params" :> <<newTx, block, newOv>>) @@ p

\* the object returned at lines 951-958
rewritten(p, bytecode, calldata) ==
  LET txObj == txObjOf(p)
      newTx == ("to" :> DECOMPRESSOR_ADDRESS) @@ ("data" :> calldata) @@ txObj
      block == IF hasBlockParam(p) /\ blockParamOf(p) # "" THEN blockParamOf(p) ELSE "latest"
      newOv == (DECOMPRESSOR_ADDRESS :> [code |-> bytecode]) @@ overridesOf(p)
  IN ("params" :> <<newTx, block, newOv>>) @@ p

(***************************************************************************)
(* The EVM that executes the synthesised contract (the test harness runs   *)
(* it at the decompressor address against an echo target).  A frame is a   *)
(* record: code, calldata, pc (1-based), stack (top last), memory (bytes,  *)
(* length a multiple of 32), returndata, output, status.                   *)
(***************************************************************************)
\* memory grown to cover [0, end), in whole words
memExpand(m, end) ==
  IF end <= Len(m) THEN m
  ELSE [i \in 1..roundUp32(end) |-> IF i <= Len(m) THEN m[i] ELSE 0]

\* bytes [off, off + n) of memory that already covers them
memRead(m, off, n) == [i \in 1..n |-> m[off + i]]

\* memory (already large enough) with bs written at off
memWrite(m, off, bs) ==
  [i \in 1..Len(m) |-> IF i > off /\ i <= off + Len(bs) THEN bs[i - off] ELSE m[i]]

\* the 20-byte address of a hex string, as a number
addressOf(str) == Strip(hexToUint8Array(str))

GasLeft == <<152, 150, 128>>

evmFrame(code, calldata) ==
  [code |-> code, calldata |-> calldata, pc |-> 1, stack |-> <<>>, memory |-> <<>>,
   returndata |-> <<>>, output |-> <<>>, status |-> "running"]

\* one instruction of the frame f; self is the executing address and echo the
\* address whose code returns its calldata
evmStep(f, self, echo) ==
  LET o == IF f.pc <= Len(f.code) THEN f.code[f.pc] ELSE 0
      s == f.stack
      n == Len(s)
      next(k) == [f EXCEPT !.pc = @ + k]
      push(g, v) == [g EXCEPT !.stack = Append(@, v)]
      drop(g, k) == [g EXCEPT !.stack = SubSeq(@, 1, Len(@) - k)]
      top(d) == s[n - d]
      un(fn(_)) == push(drop(next(1), 1), fn(top(0)))
      bin(fn(_, _)) == push(drop(next(1), 2), fn(top(0), top(1)))
      fail == [f EXCEPT !.status = "failed"]
      need(k, g) == IF n >= k THEN g ELSE fail
  IN IF o = 0 THEN [f EXCEPT !.status = "stopped"]
     ELSE IF o = 95 THEN push(next(1), <<>>)
     ELSE IF o >= 96 /\ o <= 127
       THEN LET k == o - 95
            IN push(next(1 + k),
                    Strip([i \in 1..k |-> IF f.pc + i <= Len(f.code) THEN f.code[f.pc + i] ELSE 0]))
     ELSE IF o >= 128 /\ o <= 143 THEN need(o - 127, push(next(1), top(o - 128)))
     ELSE IF o = 48 THEN push(next(1), self)
     ELSE IF o = 54 THEN push(next(1), BigOf(Len(f.calldata)))
     ELSE IF o = 89 THEN push(next(1), BigOf(Len(f.memory)))
     ELSE IF o = 52 THEN push(next(1), <<>>)
     ELSE IF o = 90 THEN push(next(1), GasLeft)
     ELSE IF o = 61 THEN push(next(1), BigOf(Len(f.returndata)))
     ELSE IF o = 53
       THEN need(1, LET i == top(0)
                    IN push(drop(next(1), 1),
                            IF ~IsSmall(i) THEN <<>>
                            ELSE Strip([j \in 1..32 |->
                                   IF NumberOf(i) + j <= Len(f.calldata)
                                   THEN f.calldata[NumberOf(i) + j] ELSE 0])))
     ELSE IF o = 25 THEN need(1, un(not))
     ELSE IF o = 23 THEN need(2, bin(or))
     ELSE IF o = 22 THEN need(2, bin(and))
     ELSE IF o = 24 THEN need(2, bin(xor))
     ELSE IF o = 3 THEN need(2, bin(sub))
     ELSE IF o = 27 THEN need(2, bin(shl))
     ELSE IF o = 28 THEN need(2, bin(shr))
     ELSE IF o = 11 THEN need(2, bin(sigext))
     ELSE IF o = 81
       THEN need(1, IF ~IsSmall(top(0)) THEN fail
                    ELSE LET k == NumberOf(top(0))
                             m == memExpand(f.memory, k + 32)
                         IN push([drop(next(1), 1) EXCEPT !.memory = m],
                                 Strip(memRead(m, k, 32))))
     ELSE IF o = 82
       THEN need(2, IF ~IsSmall(top(0)) THEN fail
                    ELSE LET k == NumberOf(top(0))
                             m == memExpand(f.memory, k + 32)
                         IN [drop(next(1), 2) EXCEPT !.memory = memWrite(m, k, Pad32(top(1)))])
     ELSE IF o = 83
       THEN need(2, IF ~IsSmall(top(0)) THEN fail
                    ELSE LET k == NumberOf(top(0))
                             m == memExpand(f.memory, k + 1)
                         IN [drop(next(1), 2) EXCEPT
                               !.memory = memWrite(m, k, <<Pad32(top(1))[32]>>)])
     ELSE IF o = 241
       THEN need(7, IF ~IsSmall(top(3)) \/ ~IsSmall(top(4)) THEN fail
                    ELSE LET to == top(1)
                             argsOffset == NumberOf(top(3))
                             argsSize == NumberOf(top(4))
                             m == IF argsSize = 0 THEN f.memory
                                  ELSE memExpand(f.memory, argsOffset + argsSize)
                             args == memRead(m, argsOffset, argsSize)
                             addr == Strip(SubSeq(Pad32(to), 13, 32))
                         IN push([drop(next(1), 7) EXCEPT
                                    !.memory = m,
                                    !.returndata = IF addr = echo THEN args ELSE <<>>],
                                 BigOf(1)))
     ELSE IF o = 62
       THEN need(3, IF ~IsSmall(top(0)) \/ ~IsSmall(top(1)) \/ ~IsSmall(top(2)) THEN fail
                    ELSE LET dest == NumberOf(top(0))
                             off == NumberOf(top(1))
                             len == NumberOf(top(2))
                             m == IF len = 0 THEN f.memory ELSE memExpand(f.memory, dest + len)
                         IN IF off + len > Len(f.returndata) THEN fail
                            ELSE [drop(next(1), 3) EXCEPT
                                    !.memory = memWrite(m, dest,
                                                 [i \in 1..len |-> f.returndata[off + i]])])
     ELSE IF o = 243
       THEN need(2, IF ~IsSmall(top(0)) \/ ~IsSmall(top(1)) THEN fail
                    ELSE LET off == NumberOf(top(0))
                             len == NumberOf(top(1))
                             m == IF len = 0 THEN f.memory ELSE memExpand(f.memory, off + len)
                         IN [drop(f, 2) EXCEPT !.memory = m,
                                               !.output = memRead(m, off, len),
                                               !.status = "returned"])
     ELSE fail

RECURSIVE runCode(_)
\* the frame f run to the end of its code, at the decompressor address
runCode(f) ==
  IF f.status # "running" \/ f.pc > Len(f.code) THEN f
  ELSE runCode(evmStep(f, addressOf(DECOMPRESSOR_ADDRESS), <<>>))

\* a frame with nothing executed: empty stack, zeroed memory, 32 bytes of calldata
NewShadow == evmFrame(<<>>, [i \in 1..32 |-> 0])

\* the frame f after the ops that took the emitter from E to E2, lines 589-590
executed(f, E, E2) ==
  runCode([f EXCEPT !.code = outBytes(E2.ops, E2.data, Len(E.ops) + 1, Len(E2.ops)),
                    !.pc = 1])

(***************************************************************************)
(* Inputs.  A calldata is a 4-byte selector followed by 32-byte ABI words; *)
(* a descriptor names the words and the length of the data string.         *)
(***************************************************************************)
\* number of palette words the two free slots of a calldata range over
PaletteSize == 12

rep(n, b) == [i \in 1..n |-> b]

\* 32-byte words with the shapes that drive the planner's choices
Palette(i) ==
  CASE i = 1 -> rep(32, 0)
    [] i = 2 -> rep(31, 0) \o <<64>>
    [] i = 3 -> rep(12, 0) \o rep(20, 17)
    [] i = 4 -> <<128>> \o rep(31, 0)
    [] i = 5 -> rep(32, 255)
    [] i = 6 -> rep(31, 255) \o <<254>>
    [] i = 7 -> <<171, 205>> \o rep(30, 0)
    [] i = 8 -> rep(31, 0) \o <<32>>
    [] i = 9 -> <<1>> \o rep(15, 0) \o <<2>> \o rep(15, 0)
    [] i = 10 -> rep(30, 0) \o <<1, 0>>
    [] i = 11 -> rep(31, 0) \o <<224>>
    [] i = 12 -> rep(16, 0) \o rep(16, 255)
    [] i = 13 -> rep(31, 0) \o <<1>>
    [] i = 14 -> rep(16, 255) \o rep(16, 0)
    [] i = 15 -> rep(15, 255) \o rep(17, 0)
    [] i = 16 -> <<171, 205>> \o rep(14, 0) \o <<18, 52>> \o rep(14, 0)
    [] OTHER -> rep(20, 0) \o <<i, 0, 0, i>> \o rep(8, 0)

Selector == <<169, 5, 156, 187>>

\* word k of a "pair" calldata: the two free words alternate, then zeros,
\* and both come back near the end
pairWord(a, b, k, nWords) ==
  IF k \in {1, 3, 6} \/ k = nWords - 1 THEN Palette(a)
  ELSE IF k \in {2, 4} \/ k = nWords THEN Palette(b)
  ELSE rep(32, 0)

\* word k of a "dense" calldata: no zero byte and no two words alike
denseWord(k) == [j \in 1..32 |-> ((k * 37 + j * 11) % 255) + 1]

\* the bytes of the calldata a descriptor names; size is the length of the
\* data string, prefix included
dataBytes(d) ==
  LET len == (d.size - 2) \div 2
      nWords == (len - 4 + 31) \div 32
  IN [i \in 1..len |->
        IF d.layout = "uniform" THEN 171
        ELSE IF d.layout = "zero" THEN 0
        ELSE IF i <= 4 THEN Selector[i]
        ELSE LET k == ((i - 5) \div 32) + 1
                 j == ((i - 5) % 32) + 1
             IN IF d.layout = "dense" THEN denseWord(k)[j]
                ELSE pairWord(d.a, d.b, k, nWords)[j]]

upperChar(c) == IF c >= 97 /\ c <= 122 /\ c # ChX THEN c - 32 ELSE c

\* the data string: '0x' and the hex digits, in upper case when asked
dataString(d) ==
  LET digits == uint8ArrayToHex(dataBytes(d))
  IN Str0x \o (IF d.upper THEN [i \in 1..Len(digits) |-> upperChar(digits[i])] ELSE digits)

Desc(layout, a, b, size, upper) ==
  [layout |-> layout, a |-> a, b |-> b, size |-> size, upper |-> upper]

\* addresses
TargetAddress == Str0x \o rep(40, 51)
MixedCaseTarget == Str0x \o [i \in 1..40 |-> IF i % 2 = 1 THEN 65 ELSE 98]
OtherAddress == Str0x \o rep(40, 49)
MixedCaseMulticall3 ==
  [i \in 1..42 |-> IF i \in {4, 30, 39, 40} THEN upperChar(MULTICALL3_ADDRESS[i])
                   ELSE MULTICALL3_ADDRESS[i]]

Caller == "0x9999999999999999999999999999999999999999"
OverrideValue == [code |-> "0x1234"]

\* state-override objects a caller may pass
OverrideSet ==
  { EmptyMap,
    MULTICALL3_ADDRESS :> OverrideValue,
    MixedCaseMulticall3 :> OverrideValue,
    DECOMPRESSOR_ADDRESS :> OverrideValue,
    OtherAddress :> [balance |-> "0x1000000000000000000"],
    (MULTICALL3_ADDRESS :> OverrideValue) @@ (OtherAddress :> [nonce |-> "0x5"]) }

\* params after the call object: nothing, a block tag, a block tag and overrides
ParamsTailSet ==
  {<<>>} \cup {<<bp>> : bp \in {"latest", "0x123456"}}
         \cup {<<bp, ov>> : bp \in {"latest", "0x123456"}, ov \in OverrideSet}

\* call objects over one data string (the empty sequence: no data key)
optKey(k, present, v) == IF present THEN k :> v ELSE EmptyMap

CallObjects(dataSet) ==
  { optKey("to", to # <<>>, to) @@ optKey("data", hasData, data)
      @@ optKey("from", hasFrom, Caller) @@ optKey("gas", hasGas, "0x100000") :
    to \in {<<>>, TargetAddress, MixedCaseTarget}, hasData \in BOOLEAN, data \in dataSet,
    hasFrom \in BOOLEAN, hasGas \in BOOLEAN }

MethodSet == {Undefined, "eth_call", "eth_sendTransaction"}

\* { jsonrpc, id, method?, params: [callObject, ...tail] }
RpcPayload(method, tx, tail) ==
  optKey("method", method # Undefined, method)
    @@ [jsonrpc |-> "2.0", id |-> 1, params |-> <<tx>> \o tail]

\* the legacy form: the call object itself, with a top-level method
LegacyPayload(method, tx) == optKey("method", method # Undefined, method) @@ tx

AlgSet == {Undefined, "jit", "flz", "cd"}

\* the plain eligible request around one data string
Baseline(data) == RpcPayload("eth_call", [to |-> TargetAddress, data |-> data, from |-> Caller],
                             <<"latest">>)

\* data strings around the size threshold, for the eligibility gates
GateData ==
  { <<>>,
    dataString(Desc("pair", 3, 2, 22, FALSE)),
    dataString(Desc("pair", 3, 2, 1148, FALSE)),
    dataString(Desc("pair", 1, 1, 1150, FALSE)) }

GateInputs ==
  { [payload |-> RpcPayload(m, tx, tail), alg |-> a] :
      m \in MethodSet, tx \in CallObjects(GateData), tail \in ParamsTailSet, a \in AlgSet }
  \cup
  { [payload |-> LegacyPayload(m, tx), alg |-> a] :
      m \in MethodSet, tx \in CallObjects(GateData), a \in AlgSet }

\* calldata shapes for the synthesiser, hint jit
JitInputs ==
  { [payload |-> Baseline(dataString(Desc("pair", ab[1], ab[2], 1162, FALSE))),
     alg |-> "jit"] :
      ab \in {x \in (1..PaletteSize) \X (1..PaletteSize) : x[1] <= x[2]} }
  \cup
  { [payload |-> Baseline(dataString(d)), alg |-> "jit"] :
      d \in { Desc("uniform", 1, 1, 1202, FALSE), Desc("dense", 1, 1, 1162, FALSE),
              Desc("pair", 5, 4, 1180, TRUE), Desc("pair", 1, 1, 1162, FALSE),
              Desc("zero", 1, 1, 1154, FALSE), Desc("pair", 15, 1, 1162, FALSE),
              Desc("pair", 12, 16, 1162, FALSE) } }

\* data strings on both sides of the two selection thresholds, every hint
BandInputs ==
  { [payload |-> Baseline(dataString(Desc("pair", 3, 4, size, FALSE))), alg |-> a] :
      size \in {1150, 2998, 3000, 7998, 8000}, a \in AlgSet }

\* data strings that are not hex strings of whole bytes: one digit too many,
\* and two letters that are no hex digits
MalformedData ==
  LET good == dataString(Desc("pair", 3, 4, 1162, FALSE))
  IN { good \o <<55>>,
       [i \in 1..Len(good) |-> IF i \in {11, 12} THEN 122 ELSE good[i]] }

MalformedInputs == { [payload |-> Baseline(d), alg |-> Undefined] : d \in MalformedData }

Inputs == GateInputs \cup JitInputs \cup BandInputs \cup MalformedInputs

\* candidate outputs of the LibZip compressors, by length
LibZipLens == {200, 2570, 2750}
LibZipOut(len) == Str0x \o rep(len - 2, Ch0)

(***************************************************************************)
(* State                                                                   *)
(***************************************************************************)
VARIABLES
  payload,        \* the object passed to compress_call
  alg,            \* the algorithm hint
  pc,             \* position of the call
  result,         \* [same, value]: same = the input object itself was returned
  path,           \* the branch of line 927 / 939 taken: "jit", "flz", "cd"
  bytecode,       \* compress_call's bytecode
  calldata,       \* compress_call's calldata
  flzData,        \* LibZip.flzCompress(inputData), or null
  cdData,         \* LibZip.cdCompress(inputData), or null
  hex,            \* _jitDecompressor: normalised input string
  buf,            \* _jitDecompressor: padded buffer
  emitter,        \* ops, data, stack, trackedMemSize, mem, stackFreq, stackCnt, pushCounter
  wordCache,
  wordCacheCost,
  plan,
  base,           \* base of the next word of the first pass
  todo,           \* steps of the current word not yet emitted
  word,           \* [base, kind, cost...] of the word the planner decided last
  seeds,          \* pre-seed values not yet pushed
  replayIdx,      \* next plan step of the second pass
  trailerIdx,     \* emissions of lines 861-864 done
  evm,            \* the frame executing the returned bytecode
  shadow,         \* an EVM frame that executes every op as the emitter records it
  supported,      \* index.ts, line 3: "null", "-1" or an encoding
  sup_enc,        \* index.ts, line 1: URL -> encodings
  requests,       \* the calls of compressModule that have not returned
  first,          \* URL -> the Accept-Encoding header of its first response
  calls           \* calls of compressModule so far

vars == <<payload, alg, pc, result, path, bytecode, calldata, flzData, cdData, hex, buf,
          emitter,
          wordCache, wordCacheCost, plan, base, todo, word, seeds, replayIdx,
          trailerIdx, evm, libzip, seen, shadow, supported, sup_enc, requests, first, calls>>

\* the module state of index.ts
httpVars == <<supported, sup_enc, requests, first, calls>>

\* what lives outside a call of compress_call
outer == <<seen, httpVars>>

jitVars == <<hex, buf, emitter, wordCache, wordCacheCost, plan, base, todo, word, seeds,
             replayIdx, trailerIdx, shadow>>

NoResult == [same |-> FALSE, value |-> <<>>]
NoWord == [base |-> -1, kind |-> "NONE"]
NoFrame == [status |-> "none"]

\* the two values of supported that are no encoding: null and -1
Null == "null"
Minus1 == "-1"

\* a call of compress_call on one of the inputs, nothing called before it
Start(inputs) ==
  /\ \E in \in inputs : payload = in.payload /\ alg = in.alg
  /\ libzip = [flz |-> EmptyMap, cd |-> EmptyMap]
  /\ seen = <<>>
  /\ pc = "entry"
  /\ result = NoResult
  /\ path = "none"
  /\ bytecode = <<>>
  /\ calldata = <<>>
  /\ flzData = <<>>
  /\ cdData = <<>>
  /\ hex = <<>>
  /\ buf = <<>>
  /\ emitter = NewEmitter
  /\ wordCache = EmptyMap
  /\ wordCacheCost = EmptyMap
  /\ plan = <<>>
  /\ base = 0
  /\ todo = <<>>
  /\ word = NoWord
  /\ seeds = <<>>
  /\ replayIdx = 1
  /\ trailerIdx = 0
  /\ evm = NoFrame
  /\ shadow = NoFrame
  /\ supported = Null
  /\ sup_enc = EmptyMap
  /\ requests = <<>>
  /\ first = EmptyMap
  /\ calls = 0

Init == Start(Inputs)

\* return payload
ReturnInput ==
  /\ result' = [same |-> TRUE, value |-> payload]
  /\ pc' = "returned"

\* compress_call, lines 899-918: the eligibility gates
Validate ==
  /\ pc = "entry"
  /\ IF methodGate(payload) \/ invalidCall(payload) \/ tooSmall(originalSizeOf(payload))
     THEN ReturnInput
     ELSE pc' = "select" /\ UNCHANGED result
  /\ UNCHANGED <<outer, libzip, payload, alg, path, bytecode, calldata, flzData, cdData, jitVars, evm>>

\* fault: wordCache and wordCacheCost are declared once for the module, not
\* once for each call of the synthesiser
SelectJitSharedCache ==
  /\ pc = "select"
  /\ useJit(alg, originalSizeOf(payload))
  /\ path' = "jit"
  /\ LET inputData == Str0x \o normHex(txObjOf(payload).data)
         originalBuf == hexToUint8Array(normHex(inputData))
     IN /\ hex' = normHex(inputData)
        /\ buf' = rep(padding, 0) \o originalBuf
  /\ emitter' = pushN(NewEmitter, BigOf(1), FALSE)
  /\ shadow' = executed(NewShadow, NewEmitter, emitter')
  /\ plan' = <<>>
  /\ base' = 0
  /\ todo' = <<>>
  /\ word' = NoWord
  /\ seeds' = <<>>
  /\ replayIdx' = 1
  /\ trailerIdx' = 0
  /\ pc' = "pass1"
  /\ UNCHANGED <<outer, libzip, payload, alg, result, bytecode, calldata, flzData, cdData,
                 wordCache, wordCacheCost, evm>>

\* line 927-929: the JIT branch; _jitDecompressor starts and declares its
\* variables, lines 439-473 and 635
SelectJit ==
  /\ pc = "select"
  /\ useJit(alg, originalSizeOf(payload))
  /\ path' = "jit"
  /\ LET inputData == Str0x \o normHex(txObjOf(payload).data)
         originalBuf == hexToUint8Array(normHex(inputData))
     IN /\ hex' = normHex(inputData)
        /\ buf' = rep(padding, 0) \o originalBuf
  /\ emitter' = pushN(NewEmitter, BigOf(1), FALSE)
  /\ shadow' = executed(NewShadow, NewEmitter, emitter')
  /\ wordCache' = EmptyMap
  /\ wordCacheCost' = EmptyMap
  /\ plan' = <<>>
  /\ base' = 0
  /\ todo' = <<>>
  /\ word' = NoWord
  /\ seeds' = <<>>
  /\ replayIdx' = 1
  /\ trailerIdx' = 0
  /\ pc' = "pass1"
  /\ UNCHANGED <<outer, libzip, payload, alg, result, bytecode, calldata, flzData, cdData, evm>>

\* lines 930-946: the FLZ / CD branch; LibZip's outputs are any of the candidates,
\* and the same as before for data it was given before
SelectLibZip ==
  /\ pc = "select"
  /\ ~useJit(alg, originalSizeOf(payload))
  /\ \E lf \in LibZipLens, lc \in LibZipLens :
       LET to == txObjOf(payload).to
           inputData == Str0x \o normHex(txObjOf(payload).data)
           ask(f, len) == IF inputData \in DOMAIN f THEN f[inputData] ELSE LibZipOut(len)
           flz == IF alg = "flz" \/ alg = Undefined THEN ask(libzip.flz, lf) ELSE <<>>
           cd == IF alg = "cd" \/ (alg = Undefined /\ flz # <<>>) THEN ask(libzip.cd, lc) ELSE <<>>
       IN /\ flzData' = flz
          /\ cdData' = cd
          /\ libzip' = [flz |-> IF flz # <<>> THEN mapSet(libzip.flz, inputData, flz)
                                ELSE libzip.flz,
                        cd |-> IF cd # <<>> THEN mapSet(libzip.cd, inputData, cd)
                               ELSE libzip.cd]
          /\ IF useFlz(alg, flz, cd)
             THEN calldata' = flz /\ bytecode' = flzFwdBytecode(to) /\ path' = "flz"
             ELSE calldata' = cd /\ bytecode' = rleFwdBytecode(to) /\ path' = "cd"
  /\ pc' = "benefit"
  /\ UNCHANGED <<outer, payload, alg, result, jitVars, evm>>

\* one iteration of the first-pass loop up to its first emission
PlanWord ==
  /\ pc = "pass1"
  /\ todo = <<>>
  /\ base < Len(buf)
  /\ LET r == planWord(hex, buf, base, wordCache, wordCacheCost)
     IN /\ todo' = r.steps
        /\ word' = [base |-> base, kind |-> r.kind]
        /\ wordCache' = r.wordCache
        /\ wordCacheCost' = r.wordCacheCost
  /\ base' = base + 32
  /\ UNCHANGED <<outer, libzip, payload, alg, pc, result, path, bytecode, calldata, flzData, cdData, hex, buf, emitter,
                 plan, seeds, replayIdx, trailerIdx, evm, shadow>>

\* emitPushN / emitPushB / emitOp: record the step in the plan and emit it
EmitPlanned ==
  /\ pc = "pass1"
  /\ todo # <<>>
  /\ plan' = Append(plan, Head(todo))
  /\ emitter' = applyStep(emitter, Head(todo))
  /\ shadow' = executed(shadow, emitter, emitter')
  /\ todo' = Tail(todo)
  /\ UNCHANGED <<outer, libzip, payload, alg, pc, result, path, bytecode, calldata, flzData, cdData, hex, buf, wordCache,
                 wordCacheCost, base, word, seeds, replayIdx, trailerIdx, evm>>

\* lines 820-832: reset the emitter and choose the pre-seed values
StartSecondPass ==
  /\ pc = "pass1"
  /\ todo = <<>>
  /\ base >= Len(buf)
  /\ emitter' = [emitter EXCEPT !.ops = <<>>, !.data = <<>>, !.stack = <<>>,
                                !.trackedMemSize = 0, !.mem = EmptyMap]
  /\ shadow' = NewShadow
  /\ seeds' = preSeedList(emitter.stackFreq, emitter.stackCnt)
  /\ pc' = "seed"
  /\ UNCHANGED <<outer, libzip, payload, alg, result, path, bytecode, calldata, flzData, cdData, hex, buf, wordCache,
                 wordCacheCost, plan, base, todo, word, replayIdx, trailerIdx, evm>>

\* lines 833-835: pushN(val) for one pre-seed value
PreSeed ==
  /\ pc = "seed"
  /\ seeds # <<>>
  /\ emitter' = pushN(emitter, Head(seeds), FALSE)
  /\ shadow' = executed(shadow, emitter, emitter')
  /\ seeds' = Tail(seeds)
  /\ UNCHANGED <<outer, libzip, payload, alg, pc, result, path, bytecode, calldata, flzData, cdData, hex, buf, wordCache,
                 wordCacheCost, plan, base, todo, word, replayIdx, trailerIdx, evm>>

\* line 836: pushN(1n), then the replay starts
CapSeed ==
  /\ pc = "seed"
  /\ seeds = <<>>
  /\ emitter' = pushN(emitter, BigOf(1), FALSE)
  /\ shadow' = executed(shadow, emitter, emitter')
  /\ replayIdx' = 1
  /\ pc' = IF Len(plan) = 0 THEN "trailer" ELSE "replay"
  /\ UNCHANGED <<outer, libzip, payload, alg, result, path, bytecode, calldata, flzData, cdData, hex, buf, wordCache,
                 wordCacheCost, plan, base, todo, word, seeds, trailerIdx, evm>>

\* lines 838-842: one step of the plan
Replay ==
  /\ pc = "replay"
  /\ replayIdx <= Len(plan)
  /\ emitter' = applyStep(emitter, plan[replayIdx])
  /\ shadow' = executed(shadow, emitter, emitter')
  /\ replayIdx' = replayIdx + 1
  /\ pc' = IF replayIdx = Len(plan) THEN "trailer" ELSE "replay"
  /\ UNCHANGED <<outer, libzip, payload, alg, result, path, bytecode, calldata, flzData, cdData, hex, buf, wordCache,
                 wordCacheCost, plan, base, todo, word, seeds, trailerIdx, evm>>

\* lines 861-864: retSize, retOffset, argsSize, argsOffset
Trailer ==
  /\ pc = "trailer"
  /\ trailerIdx < 4
  /\ emitter' = trailerStep(emitter, trailerIdx + 1, Len(buf) - padding)
  /\ shadow' = executed(shadow, emitter, emitter')
  /\ trailerIdx' = trailerIdx + 1
  /\ UNCHANGED <<outer, libzip, payload, alg, pc, result, path, bytecode, calldata, flzData, cdData, hex, buf, wordCache,
                 wordCacheCost, plan, base, todo, word, seeds, replayIdx, evm>>

\* lines 866-875 and 929: the synthesiser returns, compress_call builds calldata
Assemble ==
  /\ pc = "trailer"
  /\ trailerIdx = 4
  /\ bytecode' = jitOutput(emitter.ops, emitter.data)
  /\ calldata' = jitCalldata(txObjOf(payload).to)
  /\ pc' = "benefit"
  /\ UNCHANGED <<outer, libzip, payload, alg, result, path, flzData, cdData, jitVars, evm>>

\* lines 948-958: skip if not beneficial, else return the rewritten payload
Finish ==
  /\ pc = "benefit"
  /\ IF ~beneficial(bytecode, calldata, originalSizeOf(payload))
     THEN ReturnInput
     ELSE /\ result' = [same |-> FALSE, value |-> rewritten(payload, bytecode, calldata)]
          /\ pc' = "returned"
  /\ UNCHANGED <<outer, libzip, payload, alg, path, bytecode, calldata, flzData, cdData, jitVars, evm>>

\* the harness: the synthesised code is installed at the decompressor address
\* and called with the rewritten calldata; the original target echoes its calldata
EvmStart ==
  /\ pc = "returned"
  /\ path = "jit"
  /\ evm' = evmFrame(hexToUint8Array(bytecode), hexToUint8Array(calldata))
  /\ pc' = "evm"
  /\ UNCHANGED <<outer, libzip, payload, alg, result, path, bytecode, calldata, flzData, cdData, jitVars>>

\* one instruction
EvmStep ==
  /\ pc = "evm"
  /\ evm' = evmStep(evm, addressOf(DECOMPRESSOR_ADDRESS), addressOf(txObjOf(payload).to))
  /\ pc' = IF evm'.status = "running" THEN "evm" ELSE "halted"
  /\ UNCHANGED <<outer, libzip, payload, alg, result, path, bytecode, calldata, flzData, cdData, jitVars>>

Next ==
  \/ Validate
  \/ SelectJit
  \/ SelectLibZip
  \/ PlanWord
  \/ EmitPlanned
  \/ StartSecondPass
  \/ PreSeed
  \/ CapSeed
  \/ Replay
  \/ Trailer
  \/ Assemble
  \/ Finish
  \/ EvmStart
  \/ EvmStep

Spec == Init /\ [][Next]_vars

(***************************************************************************)
(* compress_call called again and again in one module instance             *)
(***************************************************************************)
\* calls in a row
MaxCalls == 3

\* one request for each way through compress_call: the synthesiser, the two
\* compressors, and a refusal
SeqInputs ==
  { [payload |-> Baseline(dataString(Desc("pair", 3, 4, 1150, FALSE))), alg |-> "jit"],
    [payload |-> Baseline(dataString(Desc("pair", 3, 4, 3000, FALSE))), alg |-> Undefined],
    [payload |-> RpcPayload("eth_sendTransaction",
                            [to |-> TargetAddress, data |-> dataString(Desc("pair", 3, 2, 22, FALSE))],
                            <<>>),
     alg |-> Undefined] }

\* compress_call has returned and is called again; what the synthesiser left
\* behind is out of reach until SelectJit declares it anew, LibZip is the same
\* library
Reinvoke ==
  /\ pc = "returned"
  /\ Len(seen) < MaxCalls - 1
  /\ seen' = Append(seen, [payload |-> payload, alg |-> alg, result |-> result])
  /\ \E in \in SeqInputs : payload' = in.payload /\ alg' = in.alg
  /\ pc' = "entry"
  /\ result' = NoResult
  /\ path' = "none"
  /\ bytecode' = <<>>
  /\ calldata' = <<>>
  /\ flzData' = <<>>
  /\ cdData' = <<>>
  /\ UNCHANGED <<httpVars, libzip, jitVars, evm>>

NextSeq ==
  \/ Validate
  \/ SelectJit
  \/ SelectLibZip
  \/ PlanWord
  \/ EmitPlanned
  \/ StartSecondPass
  \/ PreSeed
  \/ CapSeed
  \/ Replay
  \/ Trailer
  \/ Assemble
  \/ Finish
  \/ Reinvoke

SpecSeq == Start(SeqInputs) /\ [][NextSeq]_vars

(***************************************************************************)
(* compressModuleWithJIT, src/src/index.ts: compressModule with            *)
(* compress_call as its payload transform, in a runtime that has           *)
(* CompressionStream.  A call runs without interruption up to an await;    *)
(* other calls may run in between.                                         *)
(***************************************************************************)
\* calls of compressModule in one run, and calls that may be waiting at once
MaxRequests == 4
MaxInFlight == 2

\* const _enc
enc == {"deflate-raw", "deflate", "gzip"}

\* the -1 that _sup_enc holds for a URL whose response listed no encoding of
\* _enc: the list of line 78 is stored as it is, and the empty list reads as -1
NoneSupported == <<>>

\* the endpoints and the Accept-Encoding header of their responses, as the
\* pieces between its commas; no piece: the response has no such header
HttpUrls == {"https://one.example", "https://two.example"}

AcceptEncoding(url) ==
  IF url = "https://one.example" THEN <<"br", "deflate", "gzip">> ELSE <<>>

\* init.body: absent, a string that is no JSON, the JSON of a request
NoBody == [kind |-> "none", value |-> EmptyMap]

HttpBodies ==
  { NoBody, [kind |-> "text", value |-> EmptyMap],
    [kind |-> "json",
     value |-> RpcPayload("eth_sendTransaction",
                          [to |-> TargetAddress, data |-> dataString(Desc("pair", 3, 2, 22, FALSE))],
                          <<>>)],
    [kind |-> "json", value |-> Baseline(dataString(Desc("pair", 3, 4, 1150, FALSE)))] }

\* the module has been loaded and nothing has been called; the emitter and the
\* frame that follows it are left to what starts from here
Loaded ==
  /\ payload = EmptyMap
  /\ alg = Undefined
  /\ libzip = [flz |-> EmptyMap, cd |-> EmptyMap]
  /\ seen = <<>>
  /\ result = NoResult
  /\ path = "none"
  /\ bytecode = <<>>
  /\ calldata = <<>>
  /\ flzData = <<>>
  /\ cdData = <<>>
  /\ hex = <<>>
  /\ buf = <<>>
  /\ wordCache = EmptyMap
  /\ wordCacheCost = EmptyMap
  /\ plan = <<>>
  /\ base = 0
  /\ todo = <<>>
  /\ word = NoWord
  /\ seeds = <<>>
  /\ replayIdx = 1
  /\ trailerIdx = 0
  /\ evm = NoFrame
  /\ supported = Null
  /\ sup_enc = EmptyMap
  /\ requests = <<>>
  /\ first = EmptyMap
  /\ calls = 0

InitHttp == Loaded /\ pc = "idle" /\ emitter = NewEmitter /\ shadow = NoFrame

\* compressModule(url, {body}, compress_call), lines 35-72, up to its first
\* await: the one of line 61 when the body is compressed, the one of line 72
\* otherwise; the transform of line 47 runs as a call of compress_call
HttpCall ==
  /\ pc = "idle"
  /\ calls < MaxRequests
  /\ Len(requests) < MaxInFlight
  /\ calls' = calls + 1
  /\ \E url \in HttpUrls, body \in HttpBodies :
       LET sup == IF supported = Minus1 THEN Minus1
                  ELSE IF url \notin DOMAIN sup_enc THEN Null
                  ELSE IF sup_enc[url] = NoneSupported THEN Minus1
                  ELSE sup_enc[url][1]
           transform == body.kind = "json" /\ sup \in {Minus1, Null}
           compress == sup \notin {Minus1, Null} /\ body.kind # "none"
           r == [url |-> url, body |-> body, answered |-> url \in DOMAIN first,
                 transformed |-> FALSE, stream |-> "none", encoding |-> "none",
                 at |-> IF transform THEN "transform" ELSE IF compress THEN "compress" ELSE "fetch"]
       IN /\ supported' = sup
          /\ requests' = Append(requests, IF compress THEN [r EXCEPT !.stream = sup] ELSE r)
          /\ IF transform
             THEN /\ payload' = body.value
                  /\ alg' = Undefined
                  /\ pc' = "entry"
             ELSE UNCHANGED <<payload, alg, pc>>
  /\ UNCHANGED <<sup_enc, first, seen, libzip, result, path, bytecode, calldata, flzData, cdData,
                 jitVars, evm>>

\* lines 48-58 and 60-72 after the transform has returned: the body is the
\* JSON of what it returned, and the request goes out
HttpTransformed ==
  /\ pc = "returned"
  /\ \E i \in 1..Len(requests) :
       /\ requests[i].at = "transform"
       /\ requests' = [requests EXCEPT ![i].at = "fetch", ![i].transformed = TRUE,
                                       ![i].body = [kind |-> "json", value |-> result.value]]
  /\ payload' = EmptyMap
  /\ alg' = Undefined
  /\ pc' = "idle"
  /\ result' = NoResult
  /\ path' = "none"
  /\ bytecode' = <<>>
  /\ calldata' = <<>>
  /\ flzData' = <<>>
  /\ cdData' = <<>>
  /\ hex' = <<>>
  /\ buf' = <<>>
  /\ emitter' = NewEmitter
  /\ wordCache' = EmptyMap
  /\ wordCacheCost' = EmptyMap
  /\ plan' = <<>>
  /\ base' = 0
  /\ todo' = <<>>
  /\ word' = NoWord
  /\ seeds' = <<>>
  /\ replayIdx' = 1
  /\ trailerIdx' = 0
  /\ shadow' = NoFrame
  /\ UNCHANGED <<supported, sup_enc, first, calls, seen, libzip, evm>>

\* lines 61-72: the compressed body is there, the headers are built and the
\* request goes out
HttpCompressed ==
  /\ pc = "idle"
  /\ \E i \in 1..Len(requests) :
       /\ requests[i].at = "compress"
       /\ requests' = [requests EXCEPT ![i].at = "fetch", ![i].encoding = supported]
  /\ UNCHANGED <<supported, sup_enc, first, calls, seen, libzip, payload, alg, pc, result, path,
                 bytecode, calldata, flzData, cdData, jitVars, evm>>

\* lines 72-82: the response is there
HttpRespond ==
  /\ pc = "idle"
  /\ \E i \in 1..Len(requests) :
       LET url == requests[i].url
           header == AcceptEncoding(url)
           encodings == SelectSeq(header, LAMBDA e : e \in enc)
       IN /\ requests[i].at = "fetch"
          /\ sup_enc' = IF supported = Null THEN mapSet(sup_enc, url, encodings) ELSE sup_enc
          /\ first' = IF url \in DOMAIN first THEN first ELSE mapSet(first, url, header)
          /\ requests' = SubSeq(requests, 1, i - 1) \o SubSeq(requests, i + 1, Len(requests))
  /\ UNCHANGED <<supported, calls, seen, libzip, payload, alg, pc, result, path,
                 bytecode, calldata, flzData, cdData, jitVars, evm>>

NextHttp ==
  \/ HttpCall
  \/ HttpTransformed
  \/ HttpCompressed
  \/ HttpRespond
  \/ Validate
  \/ SelectJit
  \/ PlanWord
  \/ EmitPlanned
  \/ StartSecondPass
  \/ PreSeed
  \/ CapSeed
  \/ Replay
  \/ Trailer
  \/ Assemble
  \/ Finish

SpecHttp == InitHttp /\ [][NextHttp]_vars

(***************************************************************************)
(* The emitter on its own: pushN, pushB and op called in any order that    *)
(* gives every opcode its operands, lines 453-609, with an EVM frame       *)
(* executing each op as it is recorded.                                    *)
(***************************************************************************)
\* emissions in one run
MaxOps == 6
MaxDeepOps == 3

\* what the three primitives are called with
EmitterNums == {<<>>, BigOf(5), BigOf(64), MAX_256_BIT}
EmitterBytes == {<<171, 205>>}
EmitterOps == {25, 23, 27, 3, 81, 82, 83}

\* the operands op needs on the stack: two, or one for NOT and MLOAD; a memory
\* offset is a small number, a multiple of 32 unless a single byte is written,
\* and MLOAD reads inside the memory written so far
operandsOk(E, f, o) ==
  LET n == IF o \in {25, 81} THEN 1 ELSE 2
  IN /\ Len(E.stack) >= n
     /\ Len(f.stack) >= n
     /\ o \in {81, 82, 83} =>
          /\ IsSmall(Top(E.stack, 0)) /\ IsSmall(Top(f.stack, 0))
          /\ NumberOf(Top(E.stack, 0)) <= 64 /\ NumberOf(Top(f.stack, 0)) <= 64
     /\ o \in {81, 82} =>
          NumberOf(Top(E.stack, 0)) % 32 = 0 /\ NumberOf(Top(f.stack, 0)) % 32 = 0
     /\ o = 81 => NumberOf(Top(f.stack, 0)) + 32 <= Len(f.memory)

\* the values a caller has pushed before a run that starts on a deep stack:
\* 5 ends 16 slots below the top, out of the reach of DUP16, and 64 15 slots
DeepValues == <<BigOf(5), BigOf(64)>> \o [i \in 1..15 |-> BigOf(100 + i)]

RECURSIVE pushAll(_, _)
\* pushN(v) for every v of vals, in order
pushAll(E, vals) ==
  IF vals = <<>> THEN E ELSE pushAll(pushN(E, Head(vals), TRUE), Tail(vals))

\* a run starts on a fresh emitter or after the pushes of DeepValues
EmitterStarts == {NewEmitter, pushAll(NewEmitter, DeepValues)}

\* a run makes MaxOps emissions, MaxDeepOps on the deep stack
CanEmit ==
  IF Len(emitter.ops) >= Len(DeepValues)
  THEN Len(emitter.ops) - Len(DeepValues) < MaxDeepOps
  ELSE Len(emitter.ops) < MaxOps

InitEmitter ==
  /\ Loaded
  /\ pc = "emitter"
  /\ emitter \in EmitterStarts
  /\ shadow = executed(NewShadow, NewEmitter, emitter)

\* what every emission leaves alone
EmitterFrame ==
  UNCHANGED <<outer, libzip, payload, alg, pc, result, path, bytecode, calldata, flzData, cdData,
              hex, buf, wordCache, wordCacheCost, plan, base, todo, word, seeds, replayIdx,
              trailerIdx, evm>>

\* pushN(value), lines 597-608
EmitterPushN ==
  /\ pc = "emitter"
  /\ CanEmit
  /\ \E v \in EmitterNums : emitter' = pushN(emitter, v, TRUE)
  /\ shadow' = executed(shadow, emitter, emitter')
  /\ EmitterFrame

\* pushB(buf), line 609
EmitterPushB ==
  /\ pc = "emitter"
  /\ CanEmit
  /\ \E b \in EmitterBytes : emitter' = pushB(emitter, b)
  /\ shadow' = executed(shadow, emitter, emitter')
  /\ EmitterFrame

\* op(opcode), line 596
EmitterOp ==
  /\ pc = "emitter"
  /\ CanEmit
  /\ \E o \in EmitterOps :
       /\ operandsOk(emitter, shadow, o)
       /\ emitter' = op(emitter, o)
  /\ shadow' = executed(shadow, emitter, emitter')
  /\ EmitterFrame

NextEmitter ==
  \/ EmitterPushN
  \/ EmitterPushB
  \/ EmitterOp

SpecEmitter == InitEmitter /\ [][NextEmitter]_vars

(***************************************************************************)
(* Properties                                                              *)
(***************************************************************************)
\* compress_call has returned
Done == pc \in {"returned", "evm", "halted"}

\* the call object of the input and the length of its data string
TxObj == txObjOf(payload)
DataLength == IF hasKey(TxObj, "data") THEN Len(TxObj.data) ELSE 0

\* the input passes every gate of the eligibility rules
MethodOk == ~hasKey(payload, "method") \/ payload.method = "eth_call"
BlockOk == ~hasBlockParam(payload) \/ blockParamOf(payload) = "latest"
OverridesOk ==
  \A k \in DOMAIN overridesOf(payload) : toLowerCase(k) = toLowerCase(MULTICALL3_ADDRESS)
CallObjectOk ==
  /\ hasKey(TxObj, "to") /\ TxObj.to # <<>>
  /\ hasKey(TxObj, "data") /\ TxObj.data # <<>>
  /\ DOMAIN TxObj \subseteq {"to", "data", "from"}
Eligible == MethodOk /\ BlockOk /\ OverridesOk /\ CallObjectOk /\ DataLength >= 1150

\* the fields of a rewritten result
NewTx == result.value.params[1]
NewOverrides == result.value.params[3]
NewCode == NewOverrides[DECOMPRESSOR_ADDRESS].code

\* C1: once the synthesised bytecode has run to its end at the decompressor
\* address, with the padded target address as calldata and an echoing target,
\* it has returned, and what it returned is the original data, byte for byte
RoundTrip ==
  pc = "halted" =>
    /\ evm.status = "returned"
    /\ Len(evm.output) = (DataLength - 2) \div 2
    /\ evm.output = hexToUint8Array(TxObj.data)

\* a run whose bytecode reloads a stored word (MLOAD) and stores single bytes
\* (MSTORE8) has returned the original data
RoundTripWitness ==
  /\ pc = "halted"
  /\ evm.status = "returned"
  /\ evm.output = hexToUint8Array(TxObj.data)
  /\ Len(evm.output) > 500
  /\ \E i \in 1..Len(emitter.ops) : emitter.ops[i] = 81
  /\ \E i \in 1..Len(emitter.ops) : emitter.ops[i] = 83

\* C2: a rewritten payload carries bytecode and data that together are
\* strictly shorter than the original data; when the bytecode and data that
\* were produced are together as long as the original or longer, the input
\* is returned
NonExpansion ==
  Done =>
    /\ ~result.same => Len(NewCode) + Len(NewTx.data) < DataLength
    /\ (path # "none" /\ Len(bytecode) + Len(calldata) >= DataLength) => result.same

\* the forwarder and its data are together exactly as long as the original,
\* and the input was returned
NonExpansionWitness ==
  /\ Done
  /\ path \in {"flz", "cd"}
  /\ Len(bytecode) + Len(calldata) = DataLength
  /\ result.same

\* C3: a data string of fewer than 1150 characters: the input is returned,
\* under every hint
SizeThreshold ==
  (Done /\ hasKey(TxObj, "data") /\ DataLength < 1150) => (result.same /\ result.value = payload)

\* an otherwise eligible request of 1148 characters came back as it was
SizeThresholdWitness ==
  /\ Done
  /\ MethodOk /\ BlockOk /\ OverridesOk /\ CallObjectOk
  /\ DataLength = 1148
  /\ alg = "flz"
  /\ result.same

\* C4: a method other than eth_call: the input is returned; no method, or
\* eth_call: the request is not turned away for its method
MethodGate ==
  /\ (Done /\ ~MethodOk) => result.same
  /\ (pc # "entry" /\ MethodOk /\ BlockOk /\ OverridesOk /\ CallObjectOk /\ DataLength >= 1150)
       => path # "none" \/ pc = "select"

\* eth_sendTransaction with an otherwise eligible call came back as it was
MethodGateWitness ==
  /\ Done
  /\ hasKey(payload, "method") /\ payload.method = "eth_sendTransaction"
  /\ BlockOk /\ OverridesOk /\ CallObjectOk /\ DataLength >= 1150
  /\ result.same

\* C5: a block parameter other than latest: the input is returned; none, or
\* latest: the request is not turned away for its block parameter
BlockTagGate ==
  /\ (Done /\ ~BlockOk) => result.same
  /\ (Done /\ BlockOk /\ MethodOk /\ OverridesOk /\ CallObjectOk /\ DataLength >= 1150)
       => path # "none"

\* a block number with an otherwise eligible call came back as it was
BlockTagGateWitness ==
  /\ Done
  /\ hasBlockParam(payload) /\ blockParamOf(payload) = "0x123456"
  /\ MethodOk /\ OverridesOk /\ CallObjectOk /\ DataLength >= 1150
  /\ result.same

\* C6: overrides with a key that is not the Multicall3 address, whatever the
\* letter case, the decompressor address included: the input is returned
StateOverrideGate == (Done /\ ~OverridesOk) => (result.same /\ result.value = payload)

\* an override at the decompressor address with an otherwise eligible call
\* came back as it was
StateOverrideGateWitness ==
  /\ Done
  /\ hasOverrides(payload)
  /\ DOMAIN overridesOf(payload) = {DECOMPRESSOR_ADDRESS}
  /\ MethodOk /\ BlockOk /\ CallObjectOk /\ DataLength >= 1150
  /\ result.same

CallObjectGate == (Done /\ ~CallObjectOk) => (result.same /\ result.value = payload)

\* a call with gas, otherwise eligible, came back as it was
CallObjectGateWitness ==
  /\ Done
  /\ DOMAIN TxObj = {"to", "data", "from", "gas"}
  /\ MethodOk /\ BlockOk /\ OverridesOk /\ DataLength >= 1150
  /\ result.same

\* the target address without its prefix, in lower case, left-padded with
\* zeros to 64 characters
PaddedTarget ==
  LET t == TxObj.to
      bare == IF Len(t) >= 2 /\ t[1] = 48 /\ t[2] = 120 THEN SubSeq(t, 3, Len(t)) ELSE t
      low == [i \in 1..Len(bare) |-> IF bare[i] \in 65..90 THEN bare[i] + 32 ELSE bare[i]]
  IN <<48, 120>> \o [i \in 1..(64 - Len(low)) |-> 48] \o low

\* the shape of a rewrite through the JIT path
JitRewriteShape ==
  (Done /\ path = "jit" /\ ~result.same) =>
    /\ NewTx.to = DECOMPRESSOR_ADDRESS
    /\ NewTx.data = PaddedTarget
    /\ DOMAIN NewTx = DOMAIN TxObj
    /\ hasKey(TxObj, "from") => NewTx.from = TxObj.from
    /\ result.value.params[2] = "latest"
    /\ NewCode = bytecode
    /\ DOMAIN result.value = DOMAIN payload \cup {"params"}
    /\ \A k \in DOMAIN payload \ {"params"} : result.value[k] = payload[k]

\* C9: a JIT rewrite has to = the decompressor address, data = the padded
\* target, from and every other top-level field as they were, the block
\* parameter latest; and the input payload is never changed
ShapeOfJitRewrite == [](JitRewriteShape) /\ [][payload' = payload]_vars

\* a JIT rewrite of a request without block parameter whose target was
\* written in mixed case
ShapeOfJitRewriteWitness ==
  /\ Done
  /\ path = "jit"
  /\ ~result.same
  /\ TxObj.to = MixedCaseTarget
  /\ ~hasBlockParam(payload)
  /\ hasKey(TxObj, "from")
  /\ NewTx.data = PaddedTarget

\* C10: without hint the JIT path is taken exactly below 3000 and from 8000
\* characters on; in between both compressors run and the strictly shorter
\* output is used, CD on a tie, so the data used is never the longer one
AutomaticSelection ==
  (alg = Undefined /\ path # "none") =>
    /\ path = "jit" <=> (DataLength < 3000 \/ DataLength >= 8000)
    /\ path # "jit" =>
         /\ flzData # <<>> /\ cdData # <<>>
         /\ path = "flz" <=> Len(flzData) < Len(cdData)
         /\ calldata = IF Len(flzData) < Len(cdData) THEN flzData ELSE cdData
         /\ Len(calldata) <= Len(flzData) /\ Len(calldata) <= Len(cdData)

\* 3000 characters without hint: CD was used, its output the shorter one
AutomaticSelectionWitness ==
  /\ alg = Undefined
  /\ DataLength = 3000
  /\ path = "cd"
  /\ Len(cdData) < Len(flzData)
  /\ calldata = cdData

\* the forwarder bytecode carries the target address, in lower case and
\* without prefix, after its head
CarriesTarget(code, head) ==
  LET at == 2 + 2 * Len(head)
      t == TxObj.to
      low == [i \in 3..Len(t) |-> IF t[i] \in 65..90 THEN t[i] + 32 ELSE t[i]]
  IN /\ Len(code) >= at + 40
     /\ \A i \in 1..40 : code[at + i] = low[i + 2]

\* C11: once a branch is taken, hint jit has taken the synthesiser whatever
\* the size, hint flz has paired the FLZ output with the FLZ forwarder around
\* the target address, hint cd the CD output with the RLE forwarder around
\* the target address
HintOverridesBands ==
  (path # "none" /\ pc \in {"benefit", "returned", "evm", "halted"}) =>
    /\ alg = "jit" => /\ path = "jit"
                      /\ bytecode = jitOutput(emitter.ops, emitter.data)
                      /\ flzData = <<>> /\ cdData = <<>>
    /\ alg = "flz" => /\ path = "flz"
                      /\ flzData # <<>>
                      /\ calldata = flzData
                      /\ bytecode = flzFwdBytecode(TxObj.to)
                      /\ CarriesTarget(bytecode, FlzHead)
    /\ alg = "cd" => /\ path = "cd"
                     /\ cdData # <<>>
                     /\ calldata = cdData
                     /\ bytecode = rleFwdBytecode(TxObj.to)
                     /\ CarriesTarget(bytecode, RleHead)

\* hint jit on 3000 characters, inside the band the automatic choice gives
\* to the compressors: the synthesiser ran and its bytecode was returned
HintOverridesBandsWitness ==
  /\ Done
  /\ alg = "jit"
  /\ DataLength = 3000
  /\ path = "jit"
  /\ ~result.same
  /\ NewCode = jitOutput(emitter.ops, emitter.data)

\* the number of bytes of the data handed to the synthesiser
OriginalLen == Len(buf) - 28

\* the synthesiser has emitted everything that precedes the fixed trailer
OpsComplete ==
  \/ pc = "trailer" /\ trailerIdx = 4
  \/ path = "jit" /\ pc \in {"benefit", "returned", "evm", "halted"}

\* C12: every bytecode the synthesiser returns ends with the twelve bytes
\* 34 5f 35 5a f1 3d 5f 5f 3e 3d 5f f3 and holds nothing else after its ops;
\* where they start the symbolic stack holds, from the top, 28, the length of
\* the data, 0 and 0
FixedTrailer ==
  /\ OpsComplete =>
       LET s == emitter.stack
           n == Len(s)
       IN /\ n >= 4
          /\ s[n] = <<28>>
          /\ NumberOf(s[n - 1]) = OriginalLen
          /\ s[n - 2] = <<>>
          /\ s[n - 3] = <<>>
  /\ (path = "jit" /\ pc \in {"benefit", "returned", "evm", "halted"}) =>
       LET code == hexToUint8Array(bytecode)
           n == Len(code)
       IN /\ n >= 12
          /\ SubSeq(code, n - 11, n) = <<52, 95, 53, 90, 241, 61, 95, 95, 62, 61, 95, 243>>
          /\ SubSeq(code, 1, n - 12) = outBytes(emitter.ops, emitter.data, 1, Len(emitter.ops))

\* a synthesised bytecode for 580 bytes of data, its arguments on the stack
\* and its trailer in place
FixedTrailerWitness ==
  /\ path = "jit"
  /\ pc = "benefit"
  /\ OriginalLen = 580
  /\ Len(emitter.stack) > 4
  /\ emitter.stack[Len(emitter.stack) - 1] = <<2, 68>>
  /\ SubSeq(bytecode, Len(bytecode) - 23, Len(bytecode))
       = <<51, 52, 53, 102, 51, 53, 53, 97, 102, 49, 51, 100, 53, 102, 53, 102, 51, 101, 51, 100, 53, 102, 102, 51>>

\* C13: a call that has returned gave what every earlier call with the same
\* payload and the same hint gave, whatever was called in between; and the
\* synthesiser starts with nothing of an earlier call's ops, stack, memory
\* model, counters, cache or plan
Determinism ==
  /\ Done =>
       \A i \in 1..Len(seen) :
         (seen[i].payload = payload /\ seen[i].alg = alg) => seen[i].result = result
  /\ (pc = "pass1" /\ base = 0) =>
       /\ emitter = pushN(NewEmitter, BigOf(1), FALSE)
       /\ wordCache = EmptyMap /\ wordCacheCost = EmptyMap
       /\ plan = <<>>

\* the third call repeats the first, a rewrite through the synthesiser with a
\* reloaded word, after a call on other data, and returns the same
DeterminismWitness ==
  /\ Done
  /\ Len(seen) = 2
  /\ seen[1].payload = payload /\ seen[1].alg = alg
  /\ seen[2].payload # payload
  /\ path = "jit"
  /\ ~result.same
  /\ \E i \in 1..Len(emitter.ops) : emitter.ops[i] = 81
  /\ result = seen[1].result

\* the digits of a data string are odd in number or not all hex digits
MalformedHex(data) ==
  LET digits == IF Len(data) >= 2 /\ data[1] = 48 /\ data[2] = 120
                THEN SubSeq(data, 3, Len(data)) ELSE data
      isHex(c) == c \in 48..57 \/ c \in 97..102 \/ c \in 65..70
  IN Len(digits) % 2 = 1 \/ \E i \in 1..Len(digits) : ~isHex(digits[i])

\* C14: a request whose data is malformed hex comes back as the very object
\* that was passed
MalformedDataIneligible ==
  (Done /\ hasKey(TxObj, "data") /\ MalformedHex(TxObj.data))
    => (result.same /\ result.value = payload)

\* a payload without params is the call object itself, with a top-level
\* method eth_call, a target and data of at least 1150 characters
LegacyEligible ==
  /\ ~hasKey(payload, "params")
  /\ hasKey(payload, "method") /\ payload.method = "eth_call"
  /\ hasKey(payload, "to") /\ payload.to # <<>>
  /\ hasKey(payload, "data") /\ Len(payload.data) >= 1150
  /\ DOMAIN payload \subseteq {"method", "to", "data", "from"}

\* C15: the legacy form is accepted: a branch is taken for it, and when
\* bytecode and data together are shorter than the original data the result
\* is a rewrite
LegacyFormRewritten ==
  (Done /\ LegacyEligible) =>
    /\ path # "none"
    /\ Len(bytecode) + Len(calldata) < DataLength => ~result.same

\* the encodings of _enc that a header lists, in its order
Listed(header) == SelectSeq(header, LAMBDA e : e \in enc)

\* a call of compressModule whose request has gone out
Sent(r) == r.at = "fetch"

\* C16: once the first response from a URL has listed one of deflate-raw,
\* deflate and gzip, every later request to that URL that has a body goes out
\* compressed with, and labelled with, the first encoding that response
\* listed, whatever was requested from other URLs in between
DiscoveryPerUrl ==
  \A i \in 1..Len(requests) :
    LET r == requests[i]
    IN (Sent(r) /\ r.answered /\ Listed(first[r.url]) # <<>> /\ r.body.kind # "none")
         => /\ r.stream = Listed(first[r.url])[1]
            /\ r.encoding = Listed(first[r.url])[1]

\* C17: a request to an endpoint whose first response listed an encoding is
\* not transformed by compress_call, and no request is both transformed and
\* compressed
JitFallbackOnly ==
  \A i \in 1..Len(requests) :
    LET r == requests[i]
    IN Sent(r) =>
         /\ (r.answered /\ Listed(first[r.url]) # <<>>) => ~r.transformed
         /\ ~(r.transformed /\ r.stream # "none")

\* the synthesiser is emitting: first pass, pre-seed, replay or trailer
Emitting == pc \in {"pass1", "seed", "replay", "trailer"}

\* C18: after every emission of either pass the symbolic stack is, slot for
\* slot, the operand stack of an EVM that has executed the recorded ops from
\* an empty stack and zeroed memory at address 0xe0 with 32 bytes of calldata
SymbolicStackFaithful ==
  Emitting => shadow.status = "running" /\ emitter.stack = shadow.stack

\* C19: after every emission the tracked memory size is the largest end any
\* MSTORE or MSTORE8 has touched so far, rounded up to a multiple of 32 (the
\* size of the memory of the machine that executed the ops); it does not fall
\* when a later write lies lower
HighWaterMark ==
  shadow.status = "running" => emitter.trackedMemSize = Len(shadow.memory)

\* C20: for every non-zero word the planner has decided, the byte cost its
\* model gives the strategy it selected is at most the cost it gives every
\* other strategy it considers for that word: the literal, SHL/OR, MSTORE8
\* per byte when every segment is one byte, word reuse when the word was
\* cached before, and the peephole encodings
CostMonotone ==
  (pc = "pass1" /\ word.kind \notin {"NONE", "ZERO"}) =>
    LET w == wordAt(buf, word.base)
        seg == segments(w)
        literal == SubSeq(w, seg[1].s + 1, 32)
        literalCost == 1 + Len(literal)
        shlCost == estShlCost(seg)
        byte8s == \A i \in 1..Len(seg) : seg[i].s = seg[i].e
        byte8sCost == Len(seg) * 3
        peephole == bestOf(literal, Strip(literal)).cost
        wordHex == uint8ArrayToHex(w)
        cached == /\ wordHex \in DOMAIN wordCache
                  /\ wordCache[wordHex] < word.base
                  /\ wordCacheCost[wordHex] # -1
        reuseCost == wordCacheCost[wordHex] + baseBytesOf(word.base)
        chosen == IF word.kind = "INSTACK" THEN literalCost
                  ELSE IF word.kind = "REUSE" THEN reuseCost
                  ELSE IF word.kind = "MSTORE8" THEN byte8sCost
                  ELSE IF word.kind = "SHLOR" THEN shlCost
                  ELSE peephole
    IN /\ chosen <= literalCost
       /\ chosen <= shlCost
       /\ byte8s => chosen <= byte8sCost
       /\ cached => chosen <= reuseCost
       /\ chosen <= peephole

\* the place of a strategy in the order LITERAL, WORD REUSE, SHL/OR, MSTORE8,
\* peepholes
strategyRank(kind) ==
  IF kind \in {"LITERAL", "INSTACK"} THEN 1
  ELSE IF kind = "REUSE" THEN 2
  ELSE IF kind = "SHLOR" THEN 3
  ELSE IF kind = "MSTORE8" THEN 4
  ELSE 5

\* C21: when the strategy the planner selected for a word has the minimal
\* modelled cost, no strategy that comes before it in the order LITERAL,
\* WORD REUSE, SHL/OR, MSTORE8, peepholes has the same cost; a word for which
\* SHL/OR and the NOT peephole cost the same is built with SHL/OR
TieBreaking ==
  (pc = "pass1" /\ word.kind \notin {"NONE", "ZERO"}) =>
    LET w == wordAt(buf, word.base)
        seg == segments(w)
        literal == SubSeq(w, seg[1].s + 1, 32)
        best == bestOf(literal, Strip(literal))
        wordHex == uint8ArrayToHex(w)
        cached == /\ wordHex \in DOMAIN wordCache
                  /\ wordCache[wordHex] < word.base
                  /\ wordCacheCost[wordHex] # -1
        costs == [k \in {1} |-> 1 + Len(literal)]
                 @@ [k \in (IF cached THEN {2} ELSE {}) |->
                       wordCacheCost[wordHex] + baseBytesOf(word.base)]
                 @@ [k \in {3} |-> estShlCost(seg)]
                 @@ [k \in (IF \A i \in 1..Len(seg) : seg[i].s = seg[i].e THEN {4} ELSE {}) |->
                       Len(seg) * 3]
                 @@ [k \in (IF best.kind # "LITERAL" THEN {5} ELSE {}) |-> best.cost]
        chosen == strategyRank(word.kind)
    IN (chosen \in DOMAIN costs /\ \A k \in DOMAIN costs : costs[chosen] <= costs[k])
         => \A k \in DOMAIN costs : costs[k] = costs[chosen] => chosen <= k

\* C22: when the replay of the plan starts, the symbolic stack of the second
\* pass is, bottom to top, 1, the pre-seed values (at most 15, each above 1)
\* and 1 again: push_int(1) has been emitted before the pre-seed values and
\* after them
SecondPassPrologue ==
  (pc = "replay" /\ replayIdx = 1) =>
    LET s == emitter.stack
    IN /\ Len(s) >= 2
       /\ Len(s) <= 17
       /\ s[1] = BigOf(1)
       /\ s[Len(s)] = BigOf(1)
       /\ \A i \in 2..(Len(s) - 1) : BigGt1(s[i])


RECURSIVE firstSeenFrom(_, _, _)
\* the first pass run again over plan[lo..hi] from the emitter st.e, keeping
\* in st.first the push counter each value had when it was first pushed
firstSeenFrom(st, lo, hi) ==
  IF lo > hi THEN st
  ELSE IF lo = hi
    THEN LET e2 == applyStep(st.e, plan[lo])
         IN [e |-> e2, first |-> st.first @@ e2.stackCnt]
  ELSE LET mid == (lo + hi) \div 2
       IN firstSeenFrom(firstSeenFrom(st, lo, mid), mid + 1, hi)

\* for every value pushed in the first pass, its rank of first appearance
firstAppearance ==
  LET e0 == pushN(NewEmitter, BigOf(1), FALSE)
  IN firstSeenFrom([e |-> e0, first |-> e0.stackCnt], 1, Len(plan)).first

\* C23: the pre-seed list holds the values pushed more than once in the first
\* pass, without 0, 1, 32, 0xe0 and the values above 2^128 - 1, ordered by
\* first appearance descending and cut to its first 15 values
PreSeedByFirstAppearance ==
  (pc = "seed" /\ emitter.ops = <<>>) =>
    LET f == firstAppearance
        keep == {v \in DOMAIN emitter.stackFreq :
                   /\ emitter.stackFreq[v] > 1
                   /\ v \notin {<<>>, BigOf(1), BigOf(32), BigOf(224)}
                   /\ BigLeq(v, MAX_128_BIT)}
        chosen == {seeds[i] : i \in 1..Len(seeds)}
    IN /\ chosen \subseteq keep
       /\ Len(seeds) = Min(15, Cardinality(keep))
       /\ \A i, j \in 1..Len(seeds) : i < j => f[seeds[i]] > f[seeds[j]]
       /\ \A v \in keep \ chosen : \A w \in chosen : f[v] < f[w]


\* the opcodes a request to push a value can end with: ADDRESS, CALLDATASIZE,
\* MSIZE, PUSH0..PUSH32 and DUP1..DUP16
pushClass(o) == o \in {48, 54, 89} \/ isPush(o) \/ (o >= 128 /\ o <= 143)

\* C24: a push of 0 is emitted as PUSH0; MSIZE is emitted only for a pushed
\* value that is non-zero and equal to the tracked high-water mark; while the
\* high-water mark is 0 the recorded ops hold no MSIZE
PushZeroAndMsize ==
  (Emitting /\ emitter.ops # <<>> /\ emitter.stack # <<>>) =>
    LET o == emitter.ops[Len(emitter.ops)]
        v == Top(emitter.stack, 0)
    IN /\ (pushClass(o) /\ v = <<>>) => o = 95
       /\ o = 89 => (v # <<>> /\ v = BigOf(emitter.trackedMemSize))
       /\ emitter.trackedMemSize = 0 => \A i \in 1..Len(emitter.ops) : emitter.ops[i] # 89


\* the distance from the top of the occurrence of v nearest to the top, -1
\* when the stack does not hold v
nearest(stack, v) ==
  LET at == {d \in 0..(Len(stack) - 1) : stack[Len(stack) - d] = v}
  IN IF at = {} THEN -1 ELSE CHOOSE d \in at : \A x \in at : d <= x

\* this step emits v the way the DUP policy says: DUPn for the nearest
\* occurrence within the top 16 slots, else PUSHk with the bytes of v, and v
\* is the new top
byDupPolicy(v) ==
  LET d == nearest(emitter.stack, v)
  IN /\ IF d # -1 /\ d + 1 <= 16
        THEN /\ emitter'.ops = Append(emitter.ops, 127 + (d + 1))
             /\ emitter'.data = Append(emitter.data, <<>>)
        ELSE /\ emitter'.ops = Append(emitter.ops, 95 + Len(v))
             /\ emitter'.data = Append(emitter.data, v)
     /\ emitter'.stack = Append(emitter.stack, v)

\* a value the emitter rewrites to an opcode of its own
recognised(v) ==
  v \in {BigOf(32), BigOf(224), BigOf(emitter.trackedMemSize)}

\* C25: a push of a non-zero value that is not 32, 0xe0, the high-water mark
\* or 2^256 - 1 emits DUPn exactly when the value is within the top 16 slots,
\* n being the distance of its nearest occurrence plus 1, and PUSHk with the
\* bytes of the value otherwise; the value is the new top
DupPolicy ==
  [][\A v \in EmitterNums :
       (/\ pc = "emitter"
        /\ v # <<>> /\ ~recognised(v) /\ v # MAX_256_BIT
        /\ emitter' = pushN(emitter, v, TRUE)) => byDupPolicy(v)]_vars

\* C25 as stated, 2^256 - 1 not set apart
DupPolicyEveryValue ==
  [][\A v \in EmitterNums :
       (/\ pc = "emitter"
        /\ v # <<>> /\ ~recognised(v)
        /\ emitter' = pushN(emitter, v, TRUE)) => byDupPolicy(v)]_vars

\* 64 lay 15 slots below the top of a 17-slot stack and has been pushed
\* with DUP16; 5, then 17 slots below the top, has been pushed with PUSH1
DupAtSixteen ==
  /\ pc = "emitter"
  /\ Len(emitter.stack) = 19
  /\ SubSeq(emitter.ops, 18, 19) = <<143, 96>>
  /\ SubSeq(emitter.stack, 18, 19) = <<BigOf(64), BigOf(5)>>

\* C26: the strategy the planner chooses for a word is the literal, word
\* reuse, SHL/OR, MSTORE8 or push ~v; NOT.  Against the cost the literal and
\* NOT have reached, SUB, SIGNEXTEND and shift-and-complement never take
\* over, and no shift of the value passes the shift-and-complement test
OnlyNotPeephole ==
  [][(base' = base + 32 /\ word'.kind \notin {"NONE", "ZERO"}) =>
       LET w == wordAt(buf, base)
           seg == segments(w)
           literal == SubSeq(w, seg[1].s + 1, 32)
           literalVal == Strip(literal)
           notCost == 1 + Len(not(literalVal)) + 1
           reached == IF literalVal = MAX_256_BIT THEN 2
                      ELSE Min(1 + Len(literal), notCost)
           floor == [cost |-> reached, kind |-> "REACHED", steps |-> <<>>]
           never == [cost |-> 38, kind |-> "NEVER", steps |-> <<>>]
       IN /\ word'.kind \in {"LITERAL", "INSTACK", "REUSE", "SHLOR", "MSTORE8", "NOT"}
          /\ bestOf(literal, literalVal).kind \in {"LITERAL", "NOT"}
          /\ trySub(floor, literalVal) = floor
          /\ trySignExtend(floor, literal, literalVal) = floor
          /\ tryShiftNot(never, literalVal) = never]_vars

\* the planner has chosen push 1; NOT for the word ff..fe, which SUB builds
\* from 2 and SIGNEXTEND from the byte fe
NotOverSubAndSignExtend ==
  /\ pc = "pass1"
  /\ word.kind = "NOT"
  /\ wordAt(buf, word.base) = Palette(6)
  /\ sub(<<>>, Palette(6)) = BigOf(2)
  /\ sigext(<<>>, BigOf(254)) = Palette(6)


\* the address a store step of the plan writes to: the number pushed just
\* before it
storeAt(j) == NumberOf(plan[j - 1].v)

\* the store steps of the plan, MSTORE and MSTORE8
planStores == {j \in 1..Len(plan) : plan[j] \in {StepOp(82), StepOp(83)}}

\* C27: in a reuse sequence push offset; MLOAD; push base; MSTORE of the
\* plan, offset is a multiple of 32 below base, and when the MLOAD runs the
\* machine holds at offset the 32 bytes of the padded buffer at base.  The
\* stores of the plan never go back to a lower word and no MSTORE goes to a
\* word already stored to, so nothing is written to [offset, offset + 32)
\* once the words above it are being built
ReuseSound ==
  /\ (pc = "seed" /\ emitter.ops = <<>>) =>
       \A j, k \in planStores :
         j < k => /\ storeAt(j) \div 32 <= storeAt(k) \div 32
                  /\ plan[k] = StepOp(82) => storeAt(j) \div 32 < storeAt(k) \div 32
  /\ (pc = "replay" /\ plan[replayIdx] = StepOp(81)) =>
       LET offset == NumberOf(plan[replayIdx - 1].v)
           b == NumberOf(plan[replayIdx + 1].v)
       IN /\ plan[replayIdx + 2] = StepOp(82)
          /\ offset % 32 = 0
          /\ offset < b
          /\ shadow.status = "running"
          /\ Top(shadow.stack, 0) = BigOf(offset)
          /\ offset + 32 <= Len(shadow.memory)
          /\ SubSeq(shadow.memory, offset + 1, offset + 32) = wordAt(buf, b)
          /\ \E j \in planStores : j < replayIdx /\ storeAt(j) \div 32 = offset \div 32

\* the replay is about to load, for the word at base 64, the word 80 00..00
\* that the MSTORE8 at offset 32 has built
ReuseOfByteWord ==
  /\ pc = "replay"
  /\ plan[replayIdx] = StepOp(81)
  /\ plan[replayIdx - 1].v = BigOf(32)
  /\ plan[replayIdx + 1].v = BigOf(64)
  /\ wordAt(buf, 64) = Palette(4)
  /\ \E j \in planStores : j < replayIdx /\ plan[j] = StepOp(83) /\ storeAt(j) = 32


\* C28: every request that has gone out with a compressed body carries, as
\* its Content-Encoding, the encoding its body was compressed with, whatever
\* other calls of compressModule ran while the compression was awaited
ContentEncodingMatchesBody ==
  \A i \in 1..Len(requests) :
    LET r == requests[i]
    IN (Sent(r) /\ r.stream # "none") => r.encoding = r.stream


\* C29: an entry of _sup_enc, once there, is never changed by a later call,
\* and every URL that has received a response has an entry
DiscoveryCacheStable ==
  [][/\ \A u \in DOMAIN sup_enc : u \in DOMAIN sup_enc' /\ sup_enc'[u] = sup_enc[u]
     /\ \A u \in DOMAIN first' : u \in DOMAIN sup_enc']_vars


\* the slots a step of the plan takes from the stack and the slots it leaves
taken(step) ==
  IF step.t # "op" THEN 0
  ELSE IF step.o \in {25, 81} THEN 1
  ELSE 2

left(step) ==
  IF step.t # "op" THEN 1
  ELSE IF step.o \in {82, 83, 243} THEN 0
  ELSE 1

\* a step that ends a word: MSTORE, or one MSTORE8
endsWord(step) == step \in {StepOp(82), StepOp(83)}

RECURSIVE above(_)
\* the slots the steps plan[1..i-1] have left on the stack since the last
\* step that ended a word
above(i) ==
  IF i <= 1 \/ endsWord(plan[i - 1]) THEN 0
  ELSE above(i - 1) - taken(plan[i - 1]) + left(plan[i - 1])

\* C30: during the replay the stack is a baseline with at most 3 slots on
\* top.  Every step takes its operands from the slots above the baseline and
\* leaves the baseline as it was; the step that ends a word, an MSTORE or an
\* MSTORE8, leaves the baseline alone, and the baseline is the stack the
\* replay started with, whose top is the 1 pushed after the pre-seed values
StackBaseline ==
  [][(pc = "replay" /\ emitter' # emitter) =>
       LET step == plan[replayIdx]
           a == above(replayIdx)
           k == Len(emitter.stack) - a
       IN /\ replayIdx = 1 => a = 0
          /\ a >= taken(step)
          /\ a <= 3
          /\ k >= 1
          /\ emitter.stack[k] = BigOf(1)
          /\ \A j \in 1..(k - 1) : BigGt1(emitter.stack[j])
          /\ Len(emitter'.stack) = k + above(replayIdx + 1)
          /\ above(replayIdx + 1) <= 3
          /\ SubSeq(emitter'.stack, 1, k) = SubSeq(emitter.stack, 1, k)
          /\ endsWord(step) => emitter'.stack = SubSeq(emitter.stack, 1, k)]_vars

\* the replay stands 3 slots above a baseline of pre-seed values and 1: the
\* two segments of the word abcd 00.. 1234 00.. and the shift of the second
ThreeAboveBaseline ==
  /\ pc = "replay"
  /\ above(replayIdx) = 3
  /\ Len(emitter.stack) >= 6
  /\ emitter.stack[Len(emitter.stack) - 3] = BigOf(1)
  /\ plan[replayIdx] = StepOp(27)

====
